---- MODULE Spec2Model ----
(***************************************************************************)
(* A model of the code-quality checker of claude-sage                      *)
(* (skills/verify_quality.py): the QualityReport object, the per-file      *)
(* checks of scan_file and the recursive directory walk of scan_directory. *)
(*                                                                         *)
(* A source line is modelled by a line kind, a name standing for one       *)
(* concrete line of text; the tables LineLen, CountOpen, CountClose,       *)
(* MatchSignature, HasTodo and HasFixme give what len(), str.count() and   *)
(* re.search() of the source return on that text.  The text of a file is   *)
(* the list of lines content.split("\n") returns, which is never empty.    *)
(* The categories of the issues are the source's Chinese labels in         *)
(* English: "line length" is the source's label of check_line_length,      *)
(* "file length" of check_file_length, "function length" of                *)
(* check_function_length, "naming" of check_naming_conventions,            *)
(* "duplicate code" of check_duplicate_code and "scan error" the label     *)
(* of the except branch of scan_file.                                      *)
(*                                                                         *)
(* The other tools of the repository follow the checker, each with a       *)
(* specification of its own: the exact analyzer and its complexity rule    *)
(* (SpecAnalyzer), generate_docs of gen-docs/scripts/doc_generator.py      *)
(* (SpecDocs), the scanner and the report of verify_security.py            *)
(* (SpecSecurity, SpecSecurityClient), the checks of verify_module.py      *)
(* (SpecModule), main of verify_change.py (SpecChange) and main of         *)
(* gen_docs.py (SpecGenDocs).  SpecDeep, SpecScanInto and SpecPair are     *)
(* the quality scan on deep trees, into a report in use and on two files.  *)
(***************************************************************************)
EXTENDS Integers, Sequences, FiniteSets, TLC

VARIABLES
    target,       \* the path given to the tool: a file, a directory tree, a module
    pc,           \* the position of the caller: "start", "walk", "done", "client",
                  \* and "<tool> start", "<tool> done" for the other tools
    stack,        \* the activation records of the recursive scan(path)
    report,       \* the QualityReport: passed, issues, metrics
    file_count,   \* scan_directory's nonlocal file_count
    total_lines,  \* scan_directory's nonlocal total_lines
    runs,         \* the number of runs of main started on this target
    prevIssues,   \* report.issues of the previous finished run
    analysis,     \* what analyze_python_file returns: the metrics and the issues
    sreport,      \* the SecurityReport of verify_security: passed, findings
    mreport,      \* the ModuleReport of verify_module: passed, checks
    result,       \* the result dictionary of generate_docs
    force,        \* the force argument of generate_docs, the --force flag of gen-docs
    creport,      \* the ChangeReport of verify_change
    staged_only,  \* the --staged flag of verify_change
    exit_code     \* what main of gen-docs or of verify_change returns, -1 before

vars == <<target, pc, stack, report, file_count, total_lines, runs, prevIssues,
          analysis, sreport, mreport, result, force, creport, staged_only, exit_code>>

\* the variables of the checker of verify_quality.py, target and pc put aside
qualityVars == <<stack, report, file_count, total_lines, runs, prevIssues>>

\* the variables of the other tools
toolVars == <<analysis, sreport, mreport, result, force, creport, staged_only, exit_code>>

----------------------------------------------------------------------------
(* Program constants *)

MAX_LINE_LENGTH == 120
MAX_FUNCTION_LINES == 50
MAX_FILE_LINES == 500

(* Bounds of the model *)

MaxIssues == 4      \* issues a client of the report adds
MaxNodes == 3       \* files and directories below the scanned directory
MaxSegs == 2        \* segments of a generated file text
MaxRuns == 2        \* runs of main on one target

Severity == {"ERROR", "WARNING", "INFO"}

SKIP_DIRS == {".git", ".svn", ".hg", "node_modules", "__pycache__", ".venv",
              "venv", "dist", "build", ".next", ".nuxt", "vendor", "third_party"}

CODE_EXTENSIONS == [e \in {".py", ".js", ".ts", ".jsx", ".tsx", ".go", ".rs", ".java"} |->
    CASE e = ".py" -> "python"
      [] e \in {".js", ".jsx"} -> "javascript"
      [] e \in {".ts", ".tsx"} -> "typescript"
      [] e = ".go" -> "go"
      [] e = ".rs" -> "rust"
      [] e = ".java" -> "java"]

----------------------------------------------------------------------------
(* QualityIssue and QualityReport *)

\* QualityIssue: the message is kept as the values formatted into it
\* (count: the number of offenders, name: the function named).
QualityIssue(sev, cat, file, line, count, name) ==
    [severity |-> sev, category |-> cat, file |-> file, line |-> line,
     count |-> count, name |-> name]

\* QualityReport(): passed=True, issues=[], metrics={}
NewReport == [passed |-> TRUE, issues |-> <<>>, metrics |-> <<>>]

\* a faulty add_issue: passed is never cleared
add_issue_never_fails(r, issue) ==
    [r EXCEPT !.issues = Append(@, issue)]

\* a faulty add_issue: passed follows the issue added last
add_issue_last_decides(r, issue) ==
    [r EXCEPT !.issues = Append(@, issue), !.passed = issue.severity # "ERROR"]

\* QualityReport.add_issue
add_issue(r, issue) ==
    [r EXCEPT !.issues = Append(@, issue),
              !.passed = IF issue.severity = "ERROR" THEN FALSE ELSE @]

\* report.issues.append(issue): the list is a public field of the dataclass
issues_append(r, issue) ==
    [r EXCEPT !.issues = Append(@, issue)]

\* a read of report.passed: the stored field
ReadPassed(r) == r.passed

RECURSIVE AddAll(_, _)
\* the add_issue calls of one check, in order
AddAll(r, iss) ==
    IF iss = <<>> THEN r ELSE AddAll(add_issue(r, Head(iss)), Tail(iss))

NoError(iss) == \A k \in 1..Len(iss) : iss[k].severity # "ERROR"

----------------------------------------------------------------------------
(* Source lines.  Each line kind stands for this text:                     *)
(*   blank        the empty line                                           *)
(*   stmt         "    x1 = 1"                                             *)
(*   call         "    result = compute_total(items)"                      *)
(*   def_f        "def long_function():"                                   *)
(*   def_g        "def helper():"                                          *)
(*   def_upper    "def MyFunction():"                                      *)
(*   def_broken   "def broken("            (an unterminated header)        *)
(*   class_lower  "class myClass:"                                         *)
(*   js_func      "function hello() {"                                     *)
(*   js_sig       "function render()"                                      *)
(*   js_class     "class widget {"                                         *)
(*   open         "{"                                                      *)
(*   close        "}"                                                      *)
(*   at120        x = "a...a"   of 120 characters                          *)
(*   over121      x = "a...a"   of 121 characters                          *)
(*   long156      x = "a...a"   of 156 characters (150 times a)            *)
(*   todo         "# TODO: refactor"                                       *)
(*   fixme        "# FIXME: broken"                                        *)
(*   comment31    "# result = compute_total(items)"   (31 characters)      *)

LineKinds == {"blank", "stmt", "call", "def_f", "def_g", "def_upper", "def_broken",
              "class_lower", "js_func", "js_sig", "js_class", "open", "close",
              "at120", "over121", "long156", "todo", "fixme", "comment31"}

\* len(line)
LineLen(l) ==
    CASE l = "blank" -> 0
      [] l = "stmt" -> 10
      [] l = "call" -> 33
      [] l = "def_f" -> 20
      [] l = "def_g" -> 13
      [] l = "def_upper" -> 17
      [] l = "def_broken" -> 11
      [] l = "class_lower" -> 14
      [] l = "js_func" -> 18
      [] l = "js_sig" -> 17
      [] l = "js_class" -> 14
      [] l \in {"open", "close"} -> 1
      [] l = "at120" -> 120
      [] l = "over121" -> 121
      [] l = "long156" -> 156
      [] l = "todo" -> 16
      [] l = "fixme" -> 15
      [] l = "comment31" -> 31

\* len(line.strip())
StripLen(l) ==
    CASE l = "stmt" -> 6
      [] l = "call" -> 29
      [] OTHER -> LineLen(l)

\* line.strip().startswith(("#", "//", "*", "/*"))
IsCommentLine(l) == l \in {"todo", "fixme", "comment31"}

\* line.count("{") and line.count("}")
CountOpen(l) == IF l \in {"js_func", "js_class", "open"} THEN 1 ELSE 0
CountClose(l) == IF l = "close" THEN 1 ELSE 0

\* re.search(r"\bTODO\b", line, re.IGNORECASE), and the same for FIXME
HasTodo(l) == l = "todo"
HasFixme(l) == l = "fixme"

\* function_patterns.get(language): the languages that have a pattern
HasPattern(language) ==
    language \in {"python", "javascript", "typescript", "go", "rust", "java"}

\* re.search(pattern, line) with the pattern of the language, and the first
\* non-empty group of the match: the name matched, "" when there is no match.
MatchSignature(language, l) ==
    CASE language = "python" ->
            (CASE l = "def_f" -> "long_function"
               [] l = "def_g" -> "helper"
               [] l = "def_upper" -> "MyFunction"
               [] l = "def_broken" -> "broken"
               [] OTHER -> "")
      [] language \in {"javascript", "typescript"} ->
            (CASE l = "js_func" -> "hello"
               [] l = "js_sig" -> "render"
               [] OTHER -> "")
      [] language = "java" ->
            (CASE l = "def_f" -> "long_function"
               [] l = "def_g" -> "helper"
               [] l = "def_upper" -> "MyFunction"
               [] l = "def_broken" -> "broken"
               [] l = "js_func" -> "hello"
               [] l = "js_sig" -> "render"
               [] OTHER -> "")
      [] OTHER -> ""

\* the number of naming messages check_naming_conventions collects on a line
NamingMatches(language, l) ==
    CASE language = "python" -> IF l \in {"class_lower", "def_upper"} THEN 1 ELSE 0
      [] language \in {"javascript", "typescript"} -> IF l = "js_class" THEN 1 ELSE 0
      [] OTHER -> 0

----------------------------------------------------------------------------
(* File texts: a text is a sequence of segments, a segment n copies of one *)
(* line; Lines is content.split("\n").                                    *)

Seg(l, n) == [l |-> l, n |-> n]

RECURSIVE Lines(_)
Lines(content) ==
    IF content = <<>> THEN <<>>
    ELSE [i \in 1..Head(content).n |-> Head(content).l] \o Lines(Tail(content))

RECURSIVE SumRange(_, _, _)
\* s[lo] + ... + s[hi]
SumRange(s, lo, hi) ==
    IF lo > hi THEN 0
    ELSE IF lo = hi THEN s[lo]
    ELSE LET mid == (lo + hi) \div 2
         IN  SumRange(s, lo, mid) + SumRange(s, mid + 1, hi)

SumSeq(s) == SumRange(s, 1, Len(s))

----------------------------------------------------------------------------
(* The checks of scan_file.  Each gives the issues it adds, in order.      *)

\* a faulty check_line_length: one issue per long line
check_line_length_per_line(lines, path) ==
    LET long_lines == {i \in 1..Len(lines) : LineLen(lines[i]) > MAX_LINE_LENGTH}
    IN  [k \in 1..Cardinality(long_lines) |->
            QualityIssue("WARNING", "line length", path,
                         CHOOSE i \in long_lines : Cardinality({j \in long_lines : j <= i}) = k,
                         1, "")]

\* a faulty check_line_length: >= in place of >
check_line_length_inclusive(lines, path) ==
    LET long_lines == {i \in 1..Len(lines) : LineLen(lines[i]) >= MAX_LINE_LENGTH}
        first == CHOOSE i \in long_lines : \A j \in long_lines : i <= j
    IN  IF long_lines # {}
        THEN <<QualityIssue("WARNING", "line length", path, first,
                            Cardinality(long_lines), "")>>
        ELSE <<>>

\* check_line_length
check_line_length(lines, path) ==
    LET long_lines == {i \in 1..Len(lines) : LineLen(lines[i]) > MAX_LINE_LENGTH}
        first == CHOOSE i \in long_lines : \A j \in long_lines : i <= j
    IN  IF long_lines # {}
        THEN <<QualityIssue("WARNING", "line length", path, first,
                            Cardinality(long_lines), "")>>
        ELSE <<>>

\* a faulty check_file_length: the issue is an ERROR
check_file_length_as_error(lines, path) ==
    LET line_count == Len(lines)
    IN  IF line_count > MAX_FILE_LINES
        THEN <<QualityIssue("ERROR", "file length", path, 0, line_count, "")>>
        ELSE <<>>

\* a faulty check_file_length: the threshold itself is reported
check_file_length_inclusive(lines, path) ==
    LET line_count == Len(lines)
    IN  IF line_count >= MAX_FILE_LINES
        THEN <<QualityIssue("WARNING", "file length", path, 0, line_count, "")>>
        ELSE <<>>

\* check_file_length
check_file_length(lines, path) ==
    LET line_count == Len(lines)
    IN  IF line_count > MAX_FILE_LINES
        THEN <<QualityIssue("WARNING", "file length", path, 0, line_count, "")>>
        ELSE <<>>

\* the locals of check_function_length before its loop
FunctionScanInit ==
    [in_function |-> FALSE, function_name |-> "", function_start |-> 0,
     brace_count |-> 0, long_functions |-> <<>>]

\* a faulty iteration: the brace balance closes Python functions too
FunctionScanStepBraces(st, i, line, language) ==
    LET name == MatchSignature(language, line)
        delta == CountOpen(line) - CountClose(line)
        entry == [name |-> st.function_name, start |-> st.function_start,
                  length |-> i - st.function_start]
    IN  IF name # ""
        THEN [in_function |-> TRUE, function_name |-> name, function_start |-> i,
              brace_count |-> delta,
              long_functions |->
                  IF st.in_function /\ i - st.function_start > MAX_FUNCTION_LINES
                  THEN Append(st.long_functions, entry)
                  ELSE st.long_functions]
        ELSE IF st.in_function
        THEN IF st.brace_count + delta <= 0
             THEN [st EXCEPT !.brace_count = @ + delta,
                             !.in_function = FALSE,
                             !.long_functions =
                                 IF i - st.function_start > MAX_FUNCTION_LINES
                                 THEN Append(@, entry) ELSE @]
             ELSE [st EXCEPT !.brace_count = @ + delta]
        ELSE st

\* one iteration of the loop of check_function_length, on line i
FunctionScanStep(st, i, line, language) ==
    LET name == MatchSignature(language, line)
        delta == CountOpen(line) - CountClose(line)
        entry == [name |-> st.function_name, start |-> st.function_start,
                  length |-> i - st.function_start]
    IN  IF name # ""
        THEN [in_function |-> TRUE, function_name |-> name, function_start |-> i,
              brace_count |-> delta,
              long_functions |->
                  IF st.in_function /\ i - st.function_start > MAX_FUNCTION_LINES
                  THEN Append(st.long_functions, entry)
                  ELSE st.long_functions]
        ELSE IF st.in_function
        THEN IF st.brace_count + delta <= 0 /\ language # "python"
             THEN [st EXCEPT !.brace_count = @ + delta,
                             !.in_function = FALSE,
                             !.long_functions =
                                 IF i - st.function_start > MAX_FUNCTION_LINES
                                 THEN Append(@, entry) ELSE @]
             ELSE [st EXCEPT !.brace_count = @ + delta]
        ELSE st

RECURSIVE FunctionScan(_, _, _, _, _)
\* the loop of check_function_length over the lines lo..hi, in order (the
\* range is halved to keep the evaluation shallow)
FunctionScan(st, lo, hi, lines, language) ==
    IF lo > hi THEN st
    ELSE IF lo = hi THEN FunctionScanStep(st, lo, lines[lo], language)
    ELSE LET mid == (lo + hi) \div 2
             left == FunctionScan(st, lo, mid, lines, language)
         IN  IF left.in_function \in BOOLEAN   \* the lines lo..mid come first
             THEN FunctionScan(left, mid + 1, hi, lines, language)
             ELSE left

\* check_function_length
check_function_length(lines, path, language) ==
    IF ~HasPattern(language) THEN <<>>
    ELSE LET long_functions == FunctionScan(FunctionScanInit, 1, Len(lines), lines, language).long_functions
         IN  [k \in 1..Len(long_functions) |->
                 QualityIssue("WARNING", "function length", path, long_functions[k].start,
                              long_functions[k].length, long_functions[k].name)]

\* check_naming_conventions
check_naming_conventions(lines, path, language) ==
    LET issues == SumSeq([i \in 1..Len(lines) |-> NamingMatches(language, lines[i])])
    IN  IF issues > 0
        THEN <<QualityIssue("INFO", "naming", path, 0, issues, "")>>
        ELSE <<>>

\* check_todo_fixme
check_todo_fixme(lines, path) ==
    LET todos == {i \in 1..Len(lines) : HasTodo(lines[i])}
        fixmes == {i \in 1..Len(lines) : HasFixme(lines[i])}
        first(S) == CHOOSE i \in S : \A j \in S : i <= j
    IN  (IF fixmes # {}
         THEN <<QualityIssue("WARNING", "FIXME", path, first(fixmes), Cardinality(fixmes), "")>>
         ELSE <<>>)
        \o
        (IF todos # {}
         THEN <<QualityIssue("INFO", "TODO", path, first(todos), Cardinality(todos), "")>>
         ELSE <<>>)

\* a faulty check_duplicate_code: a text that occurs twice is a duplicate
check_duplicate_code_twice(lines, path) ==
    LET kept == {i \in 1..Len(lines) : StripLen(lines[i]) > 0 /\ ~IsCommentLine(lines[i])}
        line_counts(l) == Cardinality({i \in kept : lines[i] = l})
        duplicates == {l \in {lines[i] : i \in kept} :
                          StripLen(l) > 20 /\ line_counts(l) >= 2}
    IN  IF Cardinality(kept) < 10 THEN <<>>
        ELSE IF duplicates # {}
        THEN <<QualityIssue("INFO", "duplicate code", path, 0, Cardinality(duplicates), "")>>
        ELSE <<>>

\* check_duplicate_code
check_duplicate_code(lines, path) ==
    LET kept == {i \in 1..Len(lines) : StripLen(lines[i]) > 0 /\ ~IsCommentLine(lines[i])}
        line_counts(l) == Cardinality({i \in kept : lines[i] = l})
        duplicates == {l \in {lines[i] : i \in kept} :
                          StripLen(l) > 20 /\ line_counts(l) >= 3}
    IN  IF Cardinality(kept) < 10 THEN <<>>
        ELSE IF duplicates # {}
        THEN <<QualityIssue("INFO", "duplicate code", path, 0, Cardinality(duplicates), "")>>
        ELSE <<>>

\* a faulty suffix.lower(): the suffix as it is written
LowerAsWritten(suffix) == suffix

\* suffix.lower(), on the suffixes of the inputs
Lower(suffix) ==
    CASE suffix = ".PY" -> ".py"
      [] suffix = ".Js" -> ".js"
      [] suffix = ".TXT" -> ".txt"
      [] OTHER -> suffix

\* get_language
get_language(file) ==
    IF Lower(file.suffix) \in DOMAIN CODE_EXTENSIONS
    THEN CODE_EXTENSIONS[Lower(file.suffix)] ELSE "unknown"

\* a faulty scan_file: the checks after the first one that reports are not run
FileIssuesFirstOnly(lines, path, language) ==
    LET checks == <<check_line_length(lines, path),
                    check_file_length(lines, path),
                    check_function_length(lines, path, language),
                    check_naming_conventions(lines, path, language),
                    check_todo_fixme(lines, path),
                    check_duplicate_code(lines, path)>>
        fired == {k \in 1..Len(checks) : checks[k] # <<>>}
    IN  IF fired = {} THEN <<>>
        ELSE checks[CHOOSE k \in fired : \A j \in fired : k <= j]

\* a faulty scan_file: the TODO/FIXME check runs before the naming check
FileIssuesTodoEarly(lines, path, language) ==
    check_line_length(lines, path)
    \o check_file_length(lines, path)
    \o check_function_length(lines, path, language)
    \o check_todo_fixme(lines, path)
    \o check_naming_conventions(lines, path, language)
    \o check_duplicate_code(lines, path)

\* the issues of the checks scan_file runs on the text it has read
FileIssues(lines, path, language) ==
    check_line_length(lines, path)
    \o check_file_length(lines, path)
    \o check_function_length(lines, path, language)
    \o check_naming_conventions(lines, path, language)
    \o check_todo_fixme(lines, path)
    \o check_duplicate_code(lines, path)

\* a faulty scan_file: except: pass
scan_file_swallows_error(file, path, r) ==
    IF file.readable
    THEN AddAll(r, FileIssues(Lines(file.content), path, get_language(file)))
    ELSE r

\* scan_file: read_text raises for a file that cannot be read, and the
\* except branch adds the "scan error" issue
scan_file(file, path, r) ==
    IF file.readable
    THEN AddAll(r, FileIssues(Lines(file.content), path, get_language(file)))
    ELSE add_issue(r, QualityIssue("INFO", "scan error", path, 0, 0, ""))

----------------------------------------------------------------------------
(* The objects of the other tools of the repository *)

\* the Severity of verify_security.py
SecuritySeverity == {"CRITICAL", "HIGH", "MEDIUM", "LOW", "INFO"}

\* Finding: the message, the snippet and the recommendation are left out
Finding(sev, cat, file, line) ==
    [severity |-> sev, category |-> cat, file |-> file, line |-> line]

\* SecurityReport()
NewSecurityReport == [passed |-> TRUE, findings |-> <<>>]

\* ModuleReport()
NewModuleReport == [passed |-> TRUE, checks |-> <<>>]

\* the result generate_docs starts with; "None" is Python's None
NewResult == [readme |-> "None", design |-> "None", status |-> "success", messages |-> <<>>]

\* ChangeReport()
NewChangeReport ==
    [passed |-> TRUE, changes |-> <<>>, doc_sync_issues |-> <<>>, warnings |-> <<>>,
     impact_assessment |-> "none"]

\* no file analysed yet
NoAnalysis == [max_complexity |-> 0, issues |-> <<>>]

\* the other tools are not run
ToolsIdle ==
    /\ analysis = NoAnalysis
    /\ sreport = NewSecurityReport
    /\ mreport = NewModuleReport
    /\ result = NewResult
    /\ force = FALSE
    /\ creport = NewChangeReport
    /\ staged_only = FALSE
    /\ exit_code = -1

\* the checker of verify_quality.py is not run
QualityIdle ==
    /\ stack = <<>>
    /\ report = NewReport
    /\ file_count = 0
    /\ total_lines = 0
    /\ runs = 1
    /\ prevIssues = <<>>

----------------------------------------------------------------------------
(* The file system under the target.  A file has a suffix, a text and may  *)
(* be unreadable (read_text raises); a directory has a name and its        *)
(* entries in the order iterdir yields them.  The path of an entry is the  *)
(* sequence of its positions from the target.                              *)

File(suffix, readable, content) ==
    [type |-> "file", suffix |-> suffix, readable |-> readable, content |-> content]

Dir(name, children) == [type |-> "dir", name |-> name, children |-> children]

\* dir_name.startswith(".")
StartsWithDot(name) == name \in {".git", ".svn", ".hg", ".venv", ".next", ".nuxt", ".cache"}

\* a faulty should_skip_dir: hidden directories are not skipped
should_skip_dir_named_only(name) == name \in SKIP_DIRS

\* should_skip_dir
should_skip_dir(name) == name \in SKIP_DIRS \/ StartsWithDot(name)

\* path.suffix.lower() in CODE_EXTENSIONS
is_code_file(file) == Lower(file.suffix) \in DOMAIN CODE_EXTENSIONS

\* a faulty count: the newline characters of the file, without the + 1
CountedLinesNewlines(file) == IF file.readable THEN Len(Lines(file.content)) - 1 ELSE 0

\* len(path.read_text(...).split("\n")) inside try/except: pass
CountedLines(file) == IF file.readable THEN Len(Lines(file.content)) ELSE 0

\* the lines 285-290 and 298-303 of scan: scan_file, file_count, total_lines
ScanAndCount(file, path) ==
    /\ report' = scan_file(file, path, report)
    /\ file_count' = file_count + 1
    /\ total_lines' = total_lines + CountedLines(file)

\* report.metrics = {...} at the end of scan_directory
Metrics(r, fc, tl) ==
    [r EXCEPT !.metrics = [files_scanned |-> fc, total_lines |-> tl,
                           issues_found |-> Len(r.issues)]]

\* an activation of scan(path) on a directory: rest holds the positions
\* of the entries the iterator of path.iterdir() has not yielded yet
Frame(path, children) ==
    [path |-> path, children |-> children, rest |-> [i \in 1..Len(children) |-> i]]

Top == stack[Len(stack)]

\* a faulty walk: the entries are taken in any order
AnyEntry(frame) == {frame.rest[j] : j \in 1..Len(frame.rest)}

\* for item in path.iterdir(): the entry the loop takes next
NextEntry(frame) == {Head(frame.rest)}

\* the loop has taken the entry at position k
Advance(k) == [stack EXCEPT ![Len(stack)].rest = SelectSeq(@, LAMBDA x : x # k)]

\* main on a file: scan(target) takes the is_file branch and returns
EnterFile ==
    /\ pc = "start"
    /\ target.type = "file"
    /\ IF is_code_file(target)
       THEN /\ file_count' = file_count + 1
            /\ total_lines' = total_lines + CountedLines(target)
            /\ report' = Metrics(scan_file(target, <<>>, report),
                                 file_count', total_lines')
       ELSE /\ report' = Metrics(report, file_count, total_lines)
            /\ UNCHANGED <<file_count, total_lines>>
    /\ pc' = "done"
    /\ UNCHANGED <<target, stack, runs, prevIssues>>
    /\ UNCHANGED toolVars

\* main on a directory: scan(target) starts the loop over target.iterdir()
EnterDir ==
    /\ pc = "start"
    /\ target.type = "dir"
    /\ stack' = <<Frame(<<>>, target.children)>>
    /\ pc' = "walk"
    /\ UNCHANGED <<target, report, file_count, total_lines, runs, prevIssues>>
    /\ UNCHANGED toolVars

\* item.is_dir() and not should_skip_dir(item.name): scan(item)
VisitDir ==
    /\ pc = "walk"
    /\ Top.rest # <<>>
    /\ \E k \in NextEntry(Top) :
        LET item == Top.children[k] IN
        /\ item.type = "dir"
        /\ ~should_skip_dir(item.name)
        /\ stack' = Append(Advance(k), Frame(Append(Top.path, k), item.children))
    /\ UNCHANGED <<target, pc, report, file_count, total_lines, runs, prevIssues>>
    /\ UNCHANGED toolVars

\* a skipped directory, or an entry that is no code file: nothing is done
SkipItem ==
    /\ pc = "walk"
    /\ Top.rest # <<>>
    /\ \E k \in NextEntry(Top) :
        LET item == Top.children[k] IN
        /\ \/ item.type = "dir" /\ should_skip_dir(item.name)
           \/ item.type = "file" /\ ~is_code_file(item)
        /\ stack' = Advance(k)
    /\ UNCHANGED <<target, pc, report, file_count, total_lines, runs, prevIssues>>
    /\ UNCHANGED toolVars

\* item.is_file() and item.suffix.lower() in CODE_EXTENSIONS
VisitFile ==
    /\ pc = "walk"
    /\ Top.rest # <<>>
    /\ \E k \in NextEntry(Top) :
        LET item == Top.children[k] IN
        /\ item.type = "file"
        /\ is_code_file(item)
        /\ ScanAndCount(item, Append(Top.path, k))
        /\ stack' = Advance(k)
    /\ UNCHANGED <<target, pc, runs, prevIssues>>
    /\ UNCHANGED toolVars

\* the loop of one scan(path) is over: return to the caller; the return
\* of scan(target_path) is followed by the assignment of report.metrics
Return ==
    /\ pc = "walk"
    /\ Top.rest = <<>>
    /\ stack' = SubSeq(stack, 1, Len(stack) - 1)
    /\ IF Len(stack) = 1
       THEN /\ report' = Metrics(report, file_count, total_lines)
            /\ pc' = "done"
       ELSE UNCHANGED <<report, pc>>
    /\ UNCHANGED <<target, file_count, total_lines, runs, prevIssues>>
    /\ UNCHANGED toolVars

\* main is run again on the same, unchanged target, with a new report
Rerun ==
    /\ pc = "done"
    /\ runs < MaxRuns
    /\ prevIssues' = report.issues
    /\ report' = NewReport
    /\ file_count' = 0
    /\ total_lines' = 0
    /\ runs' = runs + 1
    /\ pc' = "start"
    /\ UNCHANGED <<target, stack>>
    /\ UNCHANGED toolVars

----------------------------------------------------------------------------
(* The inputs *)

BodyLines == 60     \* the body of the long function of the tests

CleanText == <<Seg("stmt", 1)>>
DirtyText == <<Seg("long156", 1), Seg("todo", 1)>>

\* the files of the scanned directories: Python files that can be read, one
\* of them with its extension in capitals, one that cannot be read, and a
\* text file that is no code file
TreeFiles ==
    {File(".py", TRUE, CleanText), File(".py", TRUE, DirtyText),
     File(".PY", TRUE, DirtyText),
     File(".py", FALSE, DirtyText), File(".txt", TRUE, DirtyText)}

DirNames == {"src", "__pycache__", ".cache"}

RECURSIVE Forests(_)
\* the sequences of entries of at most n files and directories in all
Forests(n) ==
    {<<>>} \cup
    UNION {
        LET trees == TreeFiles \cup {Dir(d, c) : d \in DirNames, c \in Forests(k - 1)}
        IN  {<<t>> \o rest : t \in trees, rest \in Forests(n - k)}
        : k \in 1..n }

DirTargets == {Dir("project", c) : c \in Forests(MaxNodes)}

Segs ==
    {Seg(l, 1) : l \in LineKinds}
    \cup {Seg("stmt", n) : n \in {MAX_FUNCTION_LINES, BodyLines}}
    \cup {Seg("call", 3)}

GenTexts == UNION {[1..n -> Segs] : n \in 1..MaxSegs}

FixtureTexts == {
    \* two long Python functions and a third def
    <<Seg("def_f", 1), Seg("stmt", BodyLines), Seg("def_g", 1), Seg("stmt", BodyLines),
      Seg("def_upper", 1)>>,
    \* two long JavaScript functions
    <<Seg("js_func", 1), Seg("stmt", BodyLines), Seg("close", 1),
      Seg("js_sig", 1), Seg("open", 1), Seg("stmt", BodyLines), Seg("close", 1)>>,
    \* a text that every check of a Python file reports
    <<Seg("long156", 1), Seg("over121", 1), Seg("def_f", 1), Seg("stmt", BodyLines),
      Seg("def_upper", 1), Seg("stmt", BodyLines), Seg("def_g", 1), Seg("class_lower", 1),
      Seg("todo", 2), Seg("fixme", 2), Seg("call", 3), Seg("stmt", MAX_FILE_LINES)>>,
    \* a text that breaks every threshold rule and holds no TODO or FIXME
    <<Seg("over121", 1), Seg("def_upper", 1), Seg("stmt", BodyLines), Seg("def_g", 1),
      Seg("call", 3), Seg("stmt", MAX_FILE_LINES)>>,
    \* a long line three times among ten lines of code, and among nine
    <<Seg("call", 3), Seg("stmt", 7)>>,
    <<Seg("call", 3), Seg("stmt", 6)>>,
    \* a long line twice, and a long comment three times, in a longer file
    <<Seg("call", 2), Seg("stmt", BodyLines)>>,
    <<Seg("comment31", 3), Seg("stmt", BodyLines)>>,
    \* a long JavaScript function whose opening brace follows a blank line
    <<Seg("js_sig", 1), Seg("blank", 1), Seg("open", 1), Seg("stmt", BodyLines),
      Seg("close", 1)>>,
    \* a long Python function with a pair of braces in its body
    <<Seg("def_f", 1), Seg("open", 1), Seg("close", 1), Seg("stmt", BodyLines),
      Seg("def_g", 1)>>,
    \* a file of exactly MAX_FILE_LINES lines, and one line more
    <<Seg("stmt", MAX_FILE_LINES)>>,
    <<Seg("stmt", MAX_FILE_LINES), Seg("blank", 1)>> }

FileTargets ==
    {File(s, TRUE, c) : s \in {".py", ".js", ".txt"}, c \in GenTexts \cup FixtureTexts}
    \cup {File(s, TRUE, c) : s \in {".PY", ".Js", ".TXT"},
                              c \in {CleanText, DirtyText} \cup FixtureTexts}
    \cup {File(s, FALSE, CleanText) : s \in {".py", ".js", ".txt"}}

InitMain(t) ==
    /\ target = t
    /\ pc = "start"
    /\ stack = <<>>
    /\ report = NewReport
    /\ file_count = 0
    /\ total_lines = 0
    /\ runs = 1
    /\ prevIssues = <<>>
    /\ ToolsIdle

\* main on a directory tree, or on one of the files of the trees
Init == \E t \in DirTargets \cup TreeFiles : InitMain(t)

Next == EnterFile \/ EnterDir \/ VisitDir \/ SkipItem \/ VisitFile \/ Return \/ Rerun

Spec == Init /\ [][Next]_vars

\* main on one file, over the generated texts
InitFile == \E t \in FileTargets : InitMain(t)

NextFile == EnterFile

SpecFile == InitFile /\ [][NextFile]_vars

----------------------------------------------------------------------------
(* A client of the report, as the tests use it *)

ClientIssues == {QualityIssue(s, "test", <<>>, 0, 0, "") : s \in Severity}

InitClient ==
    /\ target = [type |-> "dir", name |-> "", children |-> <<>>]
    /\ pc = "client"
    /\ stack = <<>>
    /\ report = NewReport
    /\ file_count = 0
    /\ total_lines = 0
    /\ runs = 1
    /\ prevIssues = <<>>
    /\ ToolsIdle

\* report.add_issue(issue)
AddIssueCall ==
    /\ pc = "client"
    /\ Len(report.issues) < MaxIssues
    /\ \E i \in ClientIssues : report' = add_issue(report, i)
    /\ UNCHANGED <<target, pc, stack, file_count, total_lines, runs, prevIssues>>
    /\ UNCHANGED toolVars

\* report.issues.append(issue)
DirectAppend ==
    /\ pc = "client"
    /\ Len(report.issues) < MaxIssues
    /\ \E i \in ClientIssues : report' = issues_append(report, i)
    /\ UNCHANGED <<target, pc, stack, file_count, total_lines, runs, prevIssues>>
    /\ UNCHANGED toolVars

NextReport == AddIssueCall
SpecReport == InitClient /\ [][NextReport]_vars

NextClient == AddIssueCall \/ DirectAppend
SpecClient == InitClient /\ [][NextClient]_vars

----------------------------------------------------------------------------
(* The exact analyzer of Python files and the complexity rule.  The code   *)
(* of analyze_python_file is not in verify_quality.py, which declares      *)
(* MAX_COMPLEXITY and never reads it; the analyzer is modelled from        *)
(* sections 4.2 and 4.5 of the specification.  A function body is the list *)
(* of the nodes of its syntax tree in the order of the walk, each with its *)
(* kind and its nesting depth.                                             *)

MAX_COMPLEXITY == 10

MaxIfs == 11        \* if statements of one block of a function body
MaxBlocks == 2      \* blocks of a function body

Node(kind, depth) == [kind |-> kind, depth |-> depth]

\* the decision points: a branch, a loop, an exception handler, a
\* short-circuit boolean operator and a conditional expression
DecisionKinds == {"if", "for", "while", "except", "boolop", "ifexp"}

\* a faulty complexity: the nesting levels that hold a decision are counted
complexity_per_level(body) ==
    1 + Cardinality({body[i].depth : i \in {j \in 1..Len(body) : body[j].kind \in DecisionKinds}})

\* complexity = 1 + the number of decision points, one per occurrence
complexity(body) ==
    1 + Cardinality({i \in 1..Len(body) : body[i].kind \in DecisionKinds})

\* the complexity rule on one function: complexity over the threshold is a
\* WARNING that cites the function
check_complexity(fn, path) ==
    IF complexity(fn.body) > MAX_COMPLEXITY
    THEN <<QualityIssue("WARNING", "complexity", path, fn.line, complexity(fn.body), fn.name)>>
    ELSE <<>>

RECURSIVE ComplexityIssues(_, _)
\* the rule on every function of the file, in the order of the records
ComplexityIssues(functions, path) ==
    IF functions = <<>> THEN <<>>
    ELSE check_complexity(Head(functions), path) \o ComplexityIssues(Tail(functions), path)

\* the greatest of a set of naturals, 0 for the empty set
MaxOf(S) == IF S = {} THEN 0 ELSE CHOOSE m \in S : \A n \in S : n <= m

\* analyze_python_file: the metrics (the maximum complexity of the file's
\* functions, 0 if it has none) and the issues
analyze_python_file(file) ==
    [max_complexity |-> MaxOf({complexity(file.functions[k].body) : k \in 1..Len(file.functions)}),
     issues |-> ComplexityIssues(file.functions, <<>>)]

\* n if statements, each inside the one before, around a return
Nested(n) == [i \in 1..(n + 1) |-> IF i <= n THEN Node("if", i) ELSE Node("return", n + 1)]

\* n if statements one after the other, each with an assignment as its body
Sequential(n) ==
    [i \in 1..(2 * n) |-> IF i % 2 = 1 THEN Node("if", 1) ELSE Node("assign", 2)]

Blocks ==
    {Nested(n) : n \in 1..MaxIfs} \cup {Sequential(n) : n \in 1..MaxIfs}
    \cup {<<Node(k, 1)>> : k \in DecisionKinds \cup {"assign", "return"}}

RECURSIVE BodiesOf(_)
\* the bodies of at most n blocks
BodiesOf(n) == IF n = 0 THEN {<<>>} ELSE {<<>>} \cup {b \o c : b \in Blocks, c \in BodiesOf(n - 1)}

Function(name, line, body) == [name |-> name, line |-> line, body |-> body]

\* a Python file of one function, or of two
SourceFiles ==
    {[type |-> "source", functions |-> <<Function("complex_function", 2, b)>>] :
        b \in BodiesOf(MaxBlocks)}
    \cup {[type |-> "source",
           functions |-> <<Function("complex_function", 2, b), Function("helper", 30, c)>>] :
        b, c \in {Nested(MAX_COMPLEXITY), Sequential(MAX_COMPLEXITY), Nested(MAX_COMPLEXITY - 1)}}

InitAnalyzer ==
    /\ target \in SourceFiles
    /\ pc = "analyzer start"
    /\ QualityIdle
    /\ ToolsIdle

\* metrics, issues = analyze_python_file(test_file)
AnalyzePythonFile ==
    /\ pc = "analyzer start"
    /\ analysis' = analyze_python_file(target)
    /\ pc' = "analyzer done"
    /\ UNCHANGED <<target, sreport, mreport, result, force, creport, staged_only, exit_code>>
    /\ UNCHANGED qualityVars

NextAnalyzer == AnalyzePythonFile

SpecAnalyzer == InitAnalyzer /\ [][NextAnalyzer]_vars

----------------------------------------------------------------------------
(* A module directory, as generate_docs and verify_module see it: the text *)
(* of its README.md and of its DESIGN.md ("absent" when there is no such   *)
(* file), the language of its code files ("none" when it has none), and    *)
(* whether it has tests, a .gitignore and a LICENSE.  A path that does not *)
(* exist has the type "missing".                                           *)

Module(readme, design, code, tests, gitignore, license) ==
    [type |-> "module", readme |-> readme, design |-> design, code |-> code,
     tests |-> tests, gitignore |-> gitignore, license |-> license]

MissingPath == [type |-> "missing"]

\* the texts a user wrote: a title only, a longer text without a title and
\* a longer text with one
UserTexts == {"# Existing README", "text of 120 characters", "# title and 120 characters"}

\* detect_language: the language of the most frequent code extension
detect_language(module) ==
    CASE module.code = "python" -> "Python"
      [] module.code = "javascript" -> "JavaScript"
      [] OTHER -> "Unknown"

\* analyze_module: the ModuleInfo, of which the templates read the language
analyze_module(module) == [language |-> detect_language(module)]

\* generate_readme: the template filled with the info; existing_content is
\* not read
generate_readme(info, existing) ==
    CASE info.language = "Python" -> "generated README of a Python module"
      [] info.language = "JavaScript" -> "generated README of a JavaScript module"
      [] OTHER -> "generated README of a module"

\* generate_design: the template filled with the info; existing_content is
\* not read
generate_design(info, existing) ==
    CASE info.language = "Python" -> "generated DESIGN of a Python module"
      [] info.language = "JavaScript" -> "generated DESIGN of a JavaScript module"
      [] OTHER -> "generated DESIGN of a module"

GeneratedTexts ==
    {generate_readme([language |-> l], "absent") : l \in {"Python", "JavaScript", "Unknown"}}
    \cup {generate_design([language |-> l], "absent") : l \in {"Python", "JavaScript", "Unknown"}}

\* a faulty generate_docs: README.md is written whenever force is set or
\* DESIGN.md is missing
generate_docs_together(module, f) ==
    IF module.type = "missing"
    THEN [module |-> module,
          result |-> [NewResult EXCEPT !.status = "error",
                                       !.messages = <<"path does not exist">>]]
    ELSE LET info == analyze_module(module)
             write == f \/ module.readme = "absent" \/ module.design = "absent"
             write_design == f \/ module.design = "absent"
         IN  [module |-> [module EXCEPT
                  !.readme = IF write THEN generate_readme(info, @) ELSE @,
                  !.design = IF write_design THEN generate_design(info, @) ELSE @],
              result |-> [NewResult EXCEPT
                  !.readme = IF write THEN "README.md" ELSE "None",
                  !.design = IF write_design THEN "DESIGN.md" ELSE "None",
                  !.messages = <<IF write THEN "README.md generated"
                                 ELSE "README.md exists, skipped",
                                 IF write_design THEN "DESIGN.md generated"
                                 ELSE "DESIGN.md exists, skipped">>]]

\* generate_docs: the directory after the call and the result returned
generate_docs(module, f) ==
    IF module.type = "missing"
    THEN [module |-> module,
          result |-> [NewResult EXCEPT !.status = "error",
                                       !.messages = <<"path does not exist">>]]
    ELSE LET info == analyze_module(module)
             skip_readme == module.readme # "absent" /\ ~f
             skip_design == module.design # "absent" /\ ~f
         IN  [module |-> [module EXCEPT
                  !.readme = IF skip_readme THEN @ ELSE generate_readme(info, @),
                  !.design = IF skip_design THEN @ ELSE generate_design(info, @)],
              result |-> [NewResult EXCEPT
                  !.readme = IF skip_readme THEN "None" ELSE "README.md",
                  !.design = IF skip_design THEN "None" ELSE "DESIGN.md",
                  !.messages = <<IF skip_readme THEN "README.md exists, skipped"
                                 ELSE "README.md generated",
                                 IF skip_design THEN "DESIGN.md exists, skipped"
                                 ELSE "DESIGN.md generated">>]]

DocTexts == {"absent"} \cup UserTexts \cup GeneratedTexts

Modules ==
    {Module(r, d, c, t, g, l) :
        r \in DocTexts, d \in DocTexts, c \in {"none", "python", "javascript"},
        t \in BOOLEAN, g \in BOOLEAN, l \in BOOLEAN}

InitDocs ==
    /\ target \in Modules \cup {MissingPath}
    /\ pc = "docs start"
    /\ QualityIdle
    /\ ToolsIdle

\* result = generate_docs(path, force)
GenerateDocs ==
    /\ pc = "docs start"
    /\ \E f \in BOOLEAN :
        /\ force' = f
        /\ target' = generate_docs(target, f).module
        /\ result' = generate_docs(target, f).result
    /\ pc' = "docs done"
    /\ UNCHANGED <<analysis, sreport, mreport, creport, staged_only, exit_code>>
    /\ UNCHANGED qualityVars

NextDocs == GenerateDocs

SpecDocs == InitDocs /\ [][NextDocs]_vars

----------------------------------------------------------------------------
(* The security scanner of verify_security.py.  The lines of the scanned   *)
(* files are line kinds of their own; MatchedPatterns gives the entries of *)
(* DANGEROUS_PATTERNS whose pattern re.search finds in the line.  The      *)
(* categories are the source's Chinese labels in English.                  *)

MaxFindings == 3    \* findings a client of the security report adds

\* add_finding
add_finding(r, finding) ==
    [r EXCEPT !.findings = Append(@, finding),
              !.passed = IF finding.severity \in {"CRITICAL", "HIGH"} THEN FALSE ELSE @]

\* report.findings.append(finding)
findings_append(r, finding) == [r EXCEPT !.findings = Append(@, finding)]

RECURSIVE AddAllFindings(_, _)
\* add_finding for each finding of the sequence, in order
AddAllFindings(r, findings) ==
    IF findings = <<>> THEN r
    ELSE AddAllFindings(add_finding(r, Head(findings)), Tail(findings))

\* the severity and the category of the entries of DANGEROUS_PATTERNS
DANGEROUS_PATTERNS == <<
    [severity |-> "HIGH", category |-> "code injection"],         \* eval(
    [severity |-> "HIGH", category |-> "code injection"],         \* exec(
    [severity |-> "HIGH", category |-> "command injection"],      \* subprocess shell=True
    [severity |-> "HIGH", category |-> "command injection"],      \* os.system(
    [severity |-> "HIGH", category |-> "deserialization"],        \* pickle.load(
    [severity |-> "MEDIUM", category |-> "deserialization"],      \* yaml.load(
    [severity |-> "HIGH", category |-> "hardcoded credentials"],  \* password = "..."
    [severity |-> "MEDIUM", category |-> "weak crypto"],          \* md5
    [severity |-> "LOW", category |-> "weak crypto"],             \* sha1
    [severity |-> "HIGH", category |-> "SSL/TLS"],                \* verify=False
    [severity |-> "MEDIUM", category |-> "CORS"],                 \* CORS(*
    [severity |-> "MEDIUM", category |-> "XSS"],                  \* innerHTML =
    [severity |-> "HIGH", category |-> "SQL injection"],          \* f"SELECT
    [severity |-> "LOW", category |-> "weak random"],             \* random.randint(
    [severity |-> "MEDIUM", category |-> "configuration"] >>      \* DEBUG = True

\* the lines of the scanned files:
\*   plain             x1 = 1
\*   eval_call         result = eval(user_input)
\*   comment_eval      # result = eval(user_input)
\*   comment_sql       # cursor.execute(f"SELECT * FROM users WHERE id = {user_id}")
\*   js_comment_html   // el.innerHTML = text
\*   md5_call          digest = hashlib.md5(data)
\*   random_call       n = random.randint(1, 6)
\*   comment_plain     # TODO: refactor
\*   eval_md5          eval(hashlib.md5(x))
\*   debug_on          DEBUG = True
SecurityLineKinds == {"empty", "plain", "eval_call", "comment_eval", "comment_sql",
                      "js_comment_html", "md5_call", "random_call", "comment_plain",
                      "eval_md5", "debug_on"}

\* the entries of DANGEROUS_PATTERNS that re.search(pattern, line,
\* re.IGNORECASE) finds in the line, in the order of the list
MatchedPatterns(l) ==
    CASE l \in {"eval_call", "comment_eval"} -> <<1>>
      [] l = "comment_sql" -> <<13>>
      [] l = "js_comment_html" -> <<12>>
      [] l = "md5_call" -> <<8>>
      [] l = "random_call" -> <<14>>
      [] l = "eval_md5" -> <<1, 8>>
      [] l = "debug_on" -> <<15>>
      [] OTHER -> <<>>

\* the findings of line i: one for each entry that matches
LineFindings(l, path, i) ==
    [j \in 1..Len(MatchedPatterns(l)) |->
        Finding(DANGEROUS_PATTERNS[MatchedPatterns(l)[j]].severity,
                DANGEROUS_PATTERNS[MatchedPatterns(l)[j]].category, path, i)]

RECURSIVE ScanLines(_, _, _, _)
\* the loop of scan_file over the lines from line i on
ScanLines(r, lines, i, path) ==
    IF i > Len(lines) THEN r
    ELSE ScanLines(AddAllFindings(r, LineFindings(lines[i], path, i)), lines, i + 1, path)

\* scan_file of verify_security.py: read_text raises for a file that
\* cannot be read, and the except branch adds the "scan error" finding
security_scan_file(file, path, r) ==
    IF file.readable
    THEN ScanLines(r, Lines(file.content), 1, path)
    ELSE add_finding(r, Finding("INFO", "scan error", path, 0))

\* CODE_EXTENSIONS of verify_security.py, the suffixes of the inputs
SECURITY_CODE_EXTENSIONS == {".py", ".js", ".ts", ".jsx", ".tsx", ".go", ".rs", ".java",
                             ".kt", ".php", ".rb", ".sh", ".bash", ".sql", ".html",
                             ".vue", ".svelte"}

\* should_scan_file
should_scan_file(file) == Lower(file.suffix) \in SECURITY_CODE_EXTENSIONS

\* scan_directory on a path that is a file
security_scan_directory(file, r) ==
    IF should_scan_file(file) THEN security_scan_file(file, <<>>, r) ELSE r

\* check_design_doc on a path that is a file: glob finds no DESIGN.md below it
security_check_design_doc(file, r) ==
    add_finding(r, Finding("LOW", "documentation", <<>>, 0))

SecurityTexts == UNION {[1..n -> {Seg(l, 1) : l \in SecurityLineKinds}] : n \in 1..MaxSegs}

SecurityTargets ==
    {File(s, TRUE, c) : s \in {".py", ".js", ".txt"}, c \in SecurityTexts}
    \cup {File(".PY", TRUE, <<Seg("eval_call", 1)>>), File(".py", FALSE, <<Seg("plain", 1)>>)}

\* main of verify_security.py on a file
InitSecurity ==
    /\ target \in SecurityTargets
    /\ pc = "security start"
    /\ QualityIdle
    /\ ToolsIdle

\* report = SecurityReport(); scan_directory(target_path, report)
SecurityScan ==
    /\ pc = "security start"
    /\ sreport' = security_scan_directory(target, NewSecurityReport)
    /\ pc' = "security scanned"
    /\ UNCHANGED <<target, analysis, mreport, result, force, creport, staged_only, exit_code>>
    /\ UNCHANGED qualityVars

\* check_design_doc(target_path, report), and the report is printed
SecurityCheckDesignDoc ==
    /\ pc = "security scanned"
    /\ sreport' = security_check_design_doc(target, sreport)
    /\ pc' = "security done"
    /\ UNCHANGED <<target, analysis, mreport, result, force, creport, staged_only, exit_code>>
    /\ UNCHANGED qualityVars

NextSecurity == SecurityScan \/ SecurityCheckDesignDoc

SpecSecurity == InitSecurity /\ [][NextSecurity]_vars

(* A client of the security report, as the tests use the scan result *)

ClientFindings == {Finding(sev, "test", <<>>, 1) : sev \in SecuritySeverity}

InitSecurityClient ==
    /\ target = [type |-> "dir", name |-> "", children |-> <<>>]
    /\ pc = "security client"
    /\ QualityIdle
    /\ ToolsIdle

\* report.add_finding(finding)
AddFindingCall ==
    /\ pc = "security client"
    /\ Len(sreport.findings) < MaxFindings
    /\ \E f \in ClientFindings : sreport' = add_finding(sreport, f)
    /\ UNCHANGED <<target, pc, analysis, mreport, result, force, creport, staged_only, exit_code>>
    /\ UNCHANGED qualityVars

\* result.findings.append(finding)
FindingsAppend ==
    /\ pc = "security client"
    /\ Len(sreport.findings) < MaxFindings
    /\ \E f \in ClientFindings : sreport' = findings_append(sreport, f)
    /\ UNCHANGED <<target, pc, analysis, mreport, result, force, creport, staged_only, exit_code>>
    /\ UNCHANGED qualityVars

NextSecurityClient == AddFindingCall \/ FindingsAppend

SpecSecurityClient == InitSecurityClient /\ [][NextSecurityClient]_vars

----------------------------------------------------------------------------
(* The module check of verify_module.py on a module directory.  The names  *)
(* of the checks are the file or the subject they are about.               *)

CheckResult(name, status) == [name |-> name, status |-> status]

\* add_check
add_check(r, check) ==
    [r EXCEPT !.checks = Append(@, check),
              !.passed = IF check.status = "FAIL" THEN FALSE ELSE @]

\* len(content) of the texts of the documents
DocLength(text) ==
    CASE text = "# Existing README" -> 17
      [] text \in {"text of 120 characters", "# title and 120 characters"} -> 120
      [] text \in {generate_readme([language |-> l], "absent") :
                      l \in {"Python", "JavaScript", "Unknown"}} -> 362
      [] OTHER -> 1004

\* "#" in content
HasTitle(text) == text # "text of 120 characters"

\* check_readme
check_readme(module, r) ==
    IF module.readme = "absent"
    THEN add_check(r, CheckResult("README.md", "FAIL"))
    ELSE IF DocLength(module.readme) < 100 \/ ~HasTitle(module.readme)
    THEN add_check(r, CheckResult("README.md", "WARN"))
    ELSE add_check(r, CheckResult("README.md", "PASS"))

\* check_design_doc of verify_module.py
check_design_doc(module, r) ==
    IF module.design = "absent"
    THEN add_check(r, CheckResult("DESIGN.md", "WARN"))
    ELSE IF DocLength(module.design) < 50
    THEN add_check(r, CheckResult("DESIGN.md", "WARN"))
    ELSE add_check(r, CheckResult("DESIGN.md", "PASS"))

\* check_code_structure
check_code_structure(module, r) ==
    add_check(r, CheckResult("code structure", IF module.code = "none" THEN "WARN" ELSE "PASS"))

\* check_tests
check_tests(module, r) ==
    add_check(r, CheckResult("tests", IF module.tests THEN "PASS" ELSE "WARN"))

\* check_gitignore
check_gitignore(module, r) ==
    add_check(r, CheckResult(".gitignore", IF module.gitignore THEN "PASS" ELSE "WARN"))

\* check_license
check_license(module, r) ==
    add_check(r, CheckResult("LICENSE", IF module.license THEN "PASS" ELSE "WARN"))

\* main of verify_module.py on a directory
InitModule ==
    /\ target \in Modules
    /\ pc = "module start"
    /\ QualityIdle
    /\ ToolsIdle

\* report = ModuleReport(), the six checks, and the report is printed
ModuleMain ==
    /\ pc = "module start"
    /\ mreport' =
           check_license(target,
             check_gitignore(target,
               check_tests(target,
                 check_code_structure(target,
                   check_design_doc(target,
                     check_readme(target, NewModuleReport))))))
    /\ pc' = "module done"
    /\ UNCHANGED <<target, analysis, sreport, result, force, creport, staged_only, exit_code>>
    /\ UNCHANGED qualityVars

NextModule == ModuleMain

SpecModule == InitModule /\ [][NextModule]_vars

----------------------------------------------------------------------------
(* The entry point of gen_docs.py.  Its target is a module directory, a    *)
(* path that does not exist, or a file.                                    *)

\* detect_language of gen_docs.py: the language of the extension counted
\* most often under the target
gen_docs_detect_language(module) ==
    CASE module.code = "python" -> "Python"
      [] module.code = "javascript" -> "JavaScript"
      [] OTHER -> "Unknown"

\* analyze_module of gen_docs.py: the ModuleInfo, of which the model keeps
\* the language
gen_docs_analyze_module(module) == [language |-> gen_docs_detect_language(module)]

\* generate_readme of gen_docs.py
gen_docs_generate_readme(info) ==
    CASE info.language = "Python" -> "README skeleton of a Python module"
      [] info.language = "JavaScript" -> "README skeleton of a JavaScript module"
      [] OTHER -> "README skeleton of a module"

\* generate_design of gen_docs.py
gen_docs_generate_design(info) ==
    CASE info.language = "Python" -> "DESIGN skeleton of a Python module"
      [] info.language = "JavaScript" -> "DESIGN skeleton of a JavaScript module"
      [] OTHER -> "DESIGN skeleton of a module"

\* a faulty main: without --force the file that is missing is written
gen_docs_main_fills_gaps(module, f) ==
    IF module.type # "module"
    THEN [module |-> module, exit_code |-> 1]
    ELSE LET info == gen_docs_analyze_module(module)
         IN  IF ~f /\ module.readme # "absent" /\ module.design # "absent"
             THEN [module |-> module, exit_code |-> 1]
             ELSE [module |-> [module EXCEPT
                       !.readme = IF ~f /\ @ # "absent" THEN @
                                  ELSE gen_docs_generate_readme(info),
                       !.design = IF ~f /\ @ # "absent" THEN @
                                  ELSE gen_docs_generate_design(info)],
                   exit_code |-> 0]

\* main of gen_docs.py: the directory after the call and the value returned
gen_docs_main(module, f) ==
    IF module.type = "missing" THEN [module |-> module, exit_code |-> 1]
    ELSE IF module.type # "module" THEN [module |-> module, exit_code |-> 1]
    ELSE IF ~f /\ module.readme # "absent" THEN [module |-> module, exit_code |-> 1]
    ELSE IF ~f /\ module.design # "absent" THEN [module |-> module, exit_code |-> 1]
    ELSE LET info == gen_docs_analyze_module(module)
         IN  [module |-> [module EXCEPT !.readme = gen_docs_generate_readme(info),
                                        !.design = gen_docs_generate_design(info)],
              exit_code |-> 0]

\* a target that is a file
NotADirectory == File(".py", TRUE, CleanText)

InitGenDocs ==
    /\ target \in Modules \cup {MissingPath, NotADirectory}
    /\ pc = "gen-docs start"
    /\ QualityIdle
    /\ ToolsIdle

\* sys.exit(main(sys.argv[1:])) of gen_docs.py, with --force or without
GenDocsMain ==
    /\ pc = "gen-docs start"
    /\ \E f \in BOOLEAN :
        /\ force' = f
        /\ target' = gen_docs_main(target, f).module
        /\ exit_code' = gen_docs_main(target, f).exit_code
    /\ pc' = "gen-docs done"
    /\ UNCHANGED <<analysis, sreport, mreport, result, creport, staged_only>>
    /\ UNCHANGED qualityVars

NextGenDocs == GenDocsMain

SpecGenDocs == InitGenDocs /\ [][NextGenDocs]_vars

----------------------------------------------------------------------------
(* The scan into a report that is in use: scan_directory(target_path,      *)
(* report) takes the report of its caller, who may have added issues of    *)
(* any severity to it with add_issue before the call.                      *)

\* the lists of at most n files that iterdir yields
FileLists(n) == UNION {[1..k -> TreeFiles] : k \in 0..n}

ScanIntoTargets == TreeFiles \cup {Dir("project", c) : c \in FileLists(2)}

InitScanInto ==
    /\ target \in ScanIntoTargets
    /\ pc = "client"
    /\ QualityIdle
    /\ ToolsIdle

\* scan_directory(target_path, report)
StartScan ==
    /\ pc = "client"
    /\ pc' = "start"
    /\ UNCHANGED <<target, stack, report, file_count, total_lines, runs, prevIssues>>
    /\ UNCHANGED toolVars

NextScanInto ==
    AddIssueCall \/ StartScan \/ EnterFile \/ EnterDir \/ SkipItem \/ VisitFile \/ Return

SpecScanInto == InitScanInto /\ [][NextScanInto]_vars

----------------------------------------------------------------------------
(* The scan of a directory of two files, over the texts of the tests.      *)

PairFiles ==
    {File(x, TRUE, c) : x \in {".py", ".js"}, c \in FixtureTexts}
    \cup {File(".py", FALSE, CleanText), File(".txt", TRUE, DirtyText)}

PairTargets == {Dir("project", <<f, g>>) : f \in PairFiles, g \in PairFiles}

InitPair == \E t \in PairTargets : InitMain(t)

NextPair == EnterDir \/ SkipItem \/ VisitFile \/ Return

SpecPair == InitPair /\ [][NextPair]_vars

----------------------------------------------------------------------------
(* The quality scan of a deep tree.  scan(path) calls itself for every     *)
(* directory, so a directory at depth d is scanned under d activations of  *)
(* scan on top of those of the module, main, scan_directory and            *)
(* scan(target).  The interpreter raises RecursionError when the           *)
(* activations pass its limit; scan has no handler, so the error leaves    *)
(* main.  A deep target is a directory whose first entry is a chain of     *)
(* `levels` directories, each the only entry of the one above, the last    *)
(* holding the entries `bottom`; the entries `after` follow the chain.     *)
(* The chains are far below or far above the limit.                        *)

RECURSION_LIMIT == 1000     \* sys.getrecursionlimit() of CPython
BaseFrames == 4             \* <module>, main, scan_directory, scan(target)
DeepLevels == 1100          \* the levels of the deep chain

DeepDir(levels, bottom, after) ==
    [type |-> "deep", levels |-> levels, bottom |-> bottom, after |-> after]

\* the entries of the top directory: the chain, then the entries after it
DeepEntries(t) == <<Dir("a", <<>>)>> \o t.after

DeepTargets ==
    {DeepDir(l, b, a) : l \in {1, 2, DeepLevels}, b \in FileLists(1), a \in FileLists(2)}

InitDeep == \E t \in DeepTargets : InitMain(t)

\* main on a deep directory: the loop of scan(target) takes the chain and
\* scan(item) recurses to its last directory, or fails on the way
EnterDeep ==
    /\ pc = "start"
    /\ target.type = "deep"
    /\ IF BaseFrames + target.levels > RECURSION_LIMIT
       THEN /\ pc' = "crashed"
            /\ UNCHANGED stack
       ELSE /\ pc' = "walk"
            /\ stack' = <<[Frame(<<>>, DeepEntries(target)) EXCEPT !.rest = Tail(@)],
                          Frame(<<1>>, target.bottom)>>
    /\ UNCHANGED <<target, report, file_count, total_lines, runs, prevIssues>>
    /\ UNCHANGED toolVars

NextDeep == EnterDeep \/ SkipItem \/ VisitFile \/ Return

SpecDeep == InitDeep /\ [][NextDeep]_vars

----------------------------------------------------------------------------
(* The change check of verify_change.py.  The target is what git answers:  *)
(* the lines of git diff --cached --name-status with the counts of         *)
(* --numstat (staged), the lines of git diff --name-status (unstaged), and *)
(* the directories of the work tree that hold a README.md.  A path that    *)
(* does not exist has the type "missing", a directory outside a work tree  *)
(* the type "plain dir".                                                   *)

MaxChanges == 2     \* lines git answers, staged and unstaged together

FileChange(path, change_type, additions, deletions) ==
    [path |-> path, change_type |-> change_type,
     additions |-> additions, deletions |-> deletions]

\* add_doc_issue
add_doc_issue(r, issue) ==
    [r EXCEPT !.doc_sync_issues = Append(@, issue), !.passed = FALSE]

\* add_warning
add_warning(r, warning) == [r EXCEPT !.warnings = Append(@, warning)]

ChangePaths == {"src/main.py", "lib/util.js", "README.md", "config.json"}

\* Path(path).suffix
SuffixOf(path) ==
    CASE path = "src/main.py" -> ".py"
      [] path = "lib/util.js" -> ".js"
      [] path = "README.md" -> ".md"
      [] path = "config.json" -> ".json"

\* the directory of the path
ParentOf(path) ==
    CASE path = "src/main.py" -> "src"
      [] path = "lib/util.js" -> "lib"
      [] OTHER -> "."

\* change_type_map.get(status, ChangeType.MODIFIED) of get_staged_changes
StagedChangeType(status) ==
    CASE status = "A" -> "ADDED"
      [] status = "M" -> "MODIFIED"
      [] status = "D" -> "DELETED"
      [] status = "R" -> "RENAMED"
      [] OTHER -> "MODIFIED"

\* change_type_map.get(status, ChangeType.MODIFIED) of get_unstaged_changes
UnstagedChangeType(status) ==
    CASE status = "A" -> "ADDED"
      [] status = "M" -> "MODIFIED"
      [] status = "D" -> "DELETED"
      [] OTHER -> "MODIFIED"

\* get_staged_changes: one FileChange for each line of --name-status, with
\* the counts of the --numstat line of the same path; the --numstat line of
\* a rename names "old => new", which is the path of no change
get_staged_changes(repo) ==
    [k \in 1..Len(repo.staged) |->
        LET e == repo.staged[k]
        IN  FileChange(e.path, StagedChangeType(e.status),
                       IF e.status = "R" THEN 0 ELSE e.additions,
                       IF e.status = "R" THEN 0 ELSE e.deletions)]

\* get_unstaged_changes: one FileChange for each line, without counts
get_unstaged_changes(repo) ==
    [k \in 1..Len(repo.unstaged) |->
        FileChange(repo.unstaged[k].path, UnstagedChangeType(repo.unstaged[k].status), 0, 0)]

\* a faulty merge: the later change of a path replaces the earlier one
RECURSIVE MergeChangesLastWins(_, _)
MergeChangesLastWins(kept, rest) ==
    IF rest = <<>> THEN kept
    ELSE IF \E k \in 1..Len(kept) : kept[k].path = Head(rest).path
         THEN MergeChangesLastWins(
                  [k \in 1..Len(kept) |->
                      IF kept[k].path = Head(rest).path THEN Head(rest) ELSE kept[k]],
                  Tail(rest))
         ELSE MergeChangesLastWins(Append(kept, Head(rest)), Tail(rest))

RECURSIVE MergeChanges(_, _)
\* the loop of main over staged + unstaged: a change is appended unless its
\* path is in seen_paths
MergeChanges(kept, rest) ==
    IF rest = <<>> THEN kept
    ELSE IF \E k \in 1..Len(kept) : kept[k].path = Head(rest).path
         THEN MergeChanges(kept, Tail(rest))
         ELSE MergeChanges(Append(kept, Head(rest)), Tail(rest))

\* report.changes as main fills it, with --staged and without
collect_changes(repo, only_staged) ==
    IF only_staged THEN get_staged_changes(repo)
    ELSE MergeChanges(<<>>, get_staged_changes(repo) \o get_unstaged_changes(repo))

CHANGE_CODE_EXTENSIONS == {".py", ".js", ".ts", ".go", ".rs", ".java", ".kt", ".rb", ".php",
                           ".tsx", ".jsx"}
DOC_EXTENSIONS == {".md", ".rst", ".txt"}

\* significant_code_changes of check_doc_sync
IsSignificant(c) ==
    c.additions + c.deletions > 20 \/ c.change_type \in {"ADDED", "DELETED"}

RECURSIVE ReadmeWarnings(_, _, _)
\* the second loop of check_doc_sync: a warning for each added code file
\* whose directory has no README.md (has_readme_change compares the
\* absolute directory with the relative paths and finds none)
ReadmeWarnings(r, code_changes, repo) ==
    IF code_changes = <<>> THEN r
    ELSE LET c == Head(code_changes)
             next == IF c.change_type = "ADDED" /\ ParentOf(c.path) \notin repo.readme_dirs
                     THEN add_warning(r, c.path) ELSE r
         IN  ReadmeWarnings(next, Tail(code_changes), repo)

\* a faulty check_doc_sync: the documentation changes are not looked at
check_doc_sync_code_only(changes, repo, r) ==
    LET code_changes == SelectSeq(changes, LAMBDA c : SuffixOf(c.path) \in CHANGE_CODE_EXTENSIONS)
        significant == SelectSeq(code_changes, IsSignificant)
        r1 == IF significant # <<>>
              THEN add_doc_issue(r, Len(significant)) ELSE r
    IN  ReadmeWarnings(r1, code_changes, repo)

\* check_doc_sync; the issue is kept as the number of significant changes
\* its message gives
check_doc_sync(changes, repo, r) ==
    LET code_changes == SelectSeq(changes, LAMBDA c : SuffixOf(c.path) \in CHANGE_CODE_EXTENSIONS)
        doc_changes == SelectSeq(changes, LAMBDA c : SuffixOf(c.path) \in DOC_EXTENSIONS)
        significant == SelectSeq(code_changes, IsSignificant)
        r1 == IF significant # <<>> /\ doc_changes = <<>>
              THEN add_doc_issue(r, Len(significant)) ELSE r
    IN  ReadmeWarnings(r1, code_changes, repo)

RECURSIVE SumOf(_, _)
\* sum(c.<field> for c in changes)
SumOf(changes, fld) ==
    IF changes = <<>> THEN 0 ELSE Head(changes)[fld] + SumOf(Tail(changes), fld)

\* a pattern of sensitive_patterns is in path.lower()
IsSensitive(path) == path = "config.json"

\* assess_impact
assess_impact(changes, r) ==
    LET total == SumOf(changes, "additions") + SumOf(changes, "deletions")
        sensitive_files == SelectSeq(changes, LAMBDA c : IsSensitive(c.path))
        level == IF sensitive_files # <<>> THEN "high"
                 ELSE IF Len(changes) > 20 \/ total > 500 THEN "high"
                 ELSE IF Len(changes) > 5 \/ total > 100 THEN "medium"
                 ELSE "low"
    IN  [r EXCEPT !.impact_assessment = level]

\* the lines git answers
StagedLines ==
    {[path |-> p, status |-> x[1], additions |-> x[2], deletions |-> x[3]] :
        p \in ChangePaths,
        x \in {<<"M", 10, 5>>, <<"M", 100, 50>>, <<"A", 10, 5>>, <<"D", 0, 3>>, <<"R", 0, 0>>}}

UnstagedLines == {[path |-> p, status |-> x] : p \in ChangePaths, x \in {"M", "D"}}

RECURSIVE ListsOf(_, _)
\* the lists of n lines of the set that name each path once
ListsOf(S, n) ==
    IF n = 0 THEN {<<>>}
    ELSE {Append(x[1], x[2]) :
            x \in {y \in ListsOf(S, n - 1) \X S :
                      \A k \in 1..Len(y[1]) : y[1][k].path # y[2].path}}

Repo(staged, unstaged, readme_dirs) ==
    [type |-> "repo", staged |-> staged, unstaged |-> unstaged, readme_dirs |-> readme_dirs]

PlainDir == [type |-> "plain dir"]

StagedLine(path, status, additions, deletions) ==
    [path |-> path, status |-> status, additions |-> additions, deletions |-> deletions]

\* the work trees of the tests: a change at the threshold of 20 lines and
\* one above it, and a large change next to a changed document
FixtureRepos ==
    {Repo(<<StagedLine("src/main.py", "M", 15, 5)>>, <<>>, {"."}),
     Repo(<<StagedLine("src/main.py", "M", 20, 1)>>, <<>>, {"."}),
     Repo(<<StagedLine("src/main.py", "M", 100, 50), StagedLine("README.md", "M", 1, 1)>>,
          <<>>, {"."}),
     Repo(<<StagedLine("src/main.py", "M", 100, 50), StagedLine("lib/util.js", "A", 10, 5)>>,
          <<[path |-> "lib/util.js", status |-> "M"], [path |-> "README.md", status |-> "M"]>>,
          {"."}),
     Repo(<<StagedLine("lib/util.js", "M", 10, 5), StagedLine("src/main.py", "M", 10, 5)>>,
          <<[path |-> "config.json", status |-> "M"], [path |-> "src/main.py", status |-> "D"],
            [path |-> "README.md", status |-> "D"]>>,
          {".", "src"})}

Repos ==
    FixtureRepos \cup
    UNION {{Repo(s, u, {".", "src"}) :
                s \in ListsOf(StagedLines, x[1]),
                u \in ListsOf(UnstagedLines, x[2])} :
            x \in {y \in (0..MaxChanges) \X (0..MaxChanges) : y[1] + y[2] <= MaxChanges}}

ChangeTargets == Repos \cup {MissingPath, PlainDir}

InitChange ==
    /\ target \in ChangeTargets
    /\ pc = "change start"
    /\ QualityIdle
    /\ ToolsIdle

\* main of verify_change.py up to the change list: a path that does not
\* exist or is no work tree returns 1, an empty change list returns 0
CollectChanges ==
    /\ pc = "change start"
    /\ \E only_staged \in BOOLEAN :
        /\ staged_only' = only_staged
        /\ IF target.type # "repo"
           THEN /\ exit_code' = 1
                /\ pc' = "change done"
                /\ UNCHANGED creport
           ELSE LET changes == collect_changes(target, only_staged)
                IN  /\ creport' = [creport EXCEPT !.changes = changes]
                    /\ IF changes = <<>>
                       THEN exit_code' = 0 /\ pc' = "change done"
                       ELSE pc' = "change collected" /\ UNCHANGED exit_code
    /\ UNCHANGED <<target, analysis, sreport, mreport, result, force>>
    /\ UNCHANGED qualityVars

\* the rest of main: check_doc_sync, assess_impact, the exit code
CheckChanges ==
    /\ pc = "change collected"
    /\ creport' = assess_impact(creport.changes, check_doc_sync(creport.changes, target, creport))
    /\ exit_code' = IF creport'.passed THEN 0 ELSE 1
    /\ pc' = "change done"
    /\ UNCHANGED <<target, analysis, sreport, mreport, result, force, staged_only>>
    /\ UNCHANGED qualityVars

NextChange == CollectChanges \/ CheckChanges

SpecChange == InitChange /\ [][NextChange]_vars

----------------------------------------------------------------------------
\* C1: after any sequence of add_issue calls, a read of passed is true
\* if and only if no issue of the list has severity ERROR (so adding a
\* WARNING or an INFO issue never changes passed).
C1_PassedIffNoError ==
    pc = "client" => (ReadPassed(report) <=> NoError(report.issues))

\* C1 witness: add_issue was called with a WARNING and then with an ERROR,
\* and passed is false.
C1_Witness ==
    /\ pc = "client"
    /\ Len(report.issues) >= 2
    /\ report.issues[1].severity = "WARNING"
    /\ report.issues[2].severity = "ERROR"
    /\ ~ReadPassed(report)

\* C2: passed never disagrees with the issue list, whichever way the list
\* was filled: with an ERROR issue in the list (appended directly, as the
\* test does), the next read of passed is false.
C2_PassedFollowsList ==
    pc = "client" =>
        \A k \in 1..Len(report.issues) :
            report.issues[k].severity = "ERROR" => ReadPassed(report) = FALSE

----------------------------------------------------------------------------
(* What the claims speak of, stated on the inputs alone *)

\* a supported code extension, whatever the case of its letters
SupportedSuffix(s) == s \in {".py", ".PY", ".js", ".Js"}

\* the name of an excluded or hidden directory
ExcludedDirName(n) == n \in {"__pycache__", ".cache"}

RECURSIVE EligibleIn(_, _)
\* the paths of the eligible files among the entries of the directory at path
EligibleIn(children, path) ==
    UNION { LET c == children[i]
                p == Append(path, i)
            IN  IF c.type = "file"
                THEN (IF SupportedSuffix(c.suffix) THEN {p} ELSE {})
                ELSE (IF ExcludedDirName(c.name) THEN {} ELSE EligibleIn(c.children, p))
            : i \in 1..Len(children) }

\* the paths of the eligible files of the target
EligiblePaths ==
    IF target.type = "file"
    THEN (IF SupportedSuffix(target.suffix) THEN {<<>>} ELSE {})
    ELSE EligibleIn(target.children, <<>>)

RECURSIVE NodeAt(_, _)
\* the file or directory at path p below node
NodeAt(node, p) == IF p = <<>> THEN node ELSE NodeAt(node.children[Head(p)], Tail(p))

RECURSIVE FilesIn(_, _)
\* the paths of all the files below the directory at path
FilesIn(children, path) ==
    UNION { LET c == children[i]
                p == Append(path, i)
            IN  IF c.type = "file" THEN {p} ELSE FilesIn(c.children, p)
            : i \in 1..Len(children) }

AllFilePaths == IF target.type = "file" THEN {<<>>} ELSE FilesIn(target.children, <<>>)

RECURSIVE LinesOfFiles(_)
\* the sum of the line counts of the files at the paths of S
LinesOfFiles(S) ==
    IF S = {} THEN 0
    ELSE LET p == CHOOSE q \in S : TRUE
         IN  Len(Lines(NodeAt(target, p).content)) + LinesOfFiles(S \ {p})

\* the issues of the report that carry the path p, in order
IssuesOf(p) == SelectSeq(report.issues, LAMBDA i : i.file = p)

\* the issues of the report of category c that carry the path p
IssuesOfCategory(p, c) == SelectSeq(report.issues, LAMBDA i : i.file = p /\ i.category = c)

ScanError(p) == QualityIssue("INFO", "scan error", p, 0, 0, "")

\* the target of SpecFile is a readable code file of the language
ScannedFileOf(language) ==
    /\ pc = "done"
    /\ target.type = "file"
    /\ target.readable
    /\ SupportedSuffix(target.suffix)
    /\ get_language(target) = language

ScannedFile == \E language \in {"python", "javascript"} : ScannedFileOf(language)

\* the text holds an unterminated function header, "def broken("
HasUnterminatedHeader(content) ==
    \E i \in 1..Len(content) : content[i].l = "def_broken"

----------------------------------------------------------------------------
\* C3: the scan of a Python file that is syntactically invalid (it holds an
\* unterminated function header) leaves exactly one ERROR issue of category
\* "syntax error" for the file in the report, and passed is false.
C3_SyntaxErrorReported ==
    (ScannedFileOf("python") /\ HasUnterminatedHeader(target.content)) =>
        LET errors == SelectSeq(IssuesOf(<<>>), LAMBDA i : i.severity = "ERROR")
        IN  /\ Len(errors) = 1
            /\ errors[1].category = "syntax error"
            /\ ReadPassed(report) = FALSE

\* C4: when a run is over, every eligible file that could not be read has
\* exactly one issue, the INFO "scan error" issue, and every other eligible
\* file of the file set has been scanned: it has the issues of its checks.
C4_FailureCaughtPerFile ==
    pc = "done" =>
        \A p \in EligiblePaths :
            LET f == NodeAt(target, p)
            IN  IF f.readable
                THEN IssuesOf(p) = FileIssues(Lines(f.content), p, get_language(f))
                ELSE IssuesOf(p) = <<ScanError(p)>>

\* C4 witness: a finished run in which an unreadable file got its scan
\* error and a file scanned after it got the issues of its checks.
C4_Witness ==
    /\ pc = "done"
    /\ \E j, k \in 1..Len(report.issues) :
        /\ j < k
        /\ report.issues[j] = ScanError(report.issues[j].file)
        /\ report.issues[j].file \in EligiblePaths
        /\ report.issues[k].file # report.issues[j].file
        /\ report.issues[k].category = "line length"

\* C5: a file that could not be read contributes nothing to the metrics:
\* files_scanned counts the eligible files that could be read, and
\* total_lines is the sum of their line counts.
C5_UnreadableNotCounted ==
    pc = "done" =>
        LET readable == {p \in EligiblePaths : NodeAt(target, p).readable}
        IN  /\ report.metrics.files_scanned = Cardinality(readable)
            /\ report.metrics.total_lines = LinesOfFiles(readable)

\* C6: when the scan of a tree is over, files_scanned is the number K of
\* its eligible files, whatever their depth; at no time does the report
\* hold an issue of a file that is not eligible.
C6_FilesScannedIsEligible ==
    /\ pc = "done" => report.metrics.files_scanned = Cardinality(EligiblePaths)
    /\ \A k \in 1..Len(report.issues) : report.issues[k].file \in EligiblePaths

\* C6 witness: a finished scan of a tree with an eligible file at depth two,
\* counted, and with a file that is not eligible and whose text would get
\* issues if it were scanned.
C6_Witness ==
    /\ pc = "done"
    /\ target.type = "dir"
    /\ \E p \in EligiblePaths : Len(p) >= 2
    /\ report.metrics.files_scanned >= 1
    /\ \E p \in AllFilePaths \ EligiblePaths :
           NodeAt(target, p).readable /\ NodeAt(target, p).content = DirtyText

RECURSIVE DispatchOrder(_, _, _)
\* the eligible files below the directory at path, in the order of the
\* walk: the entries from position i on, a directory's files in its place
DispatchOrder(children, path, i) ==
    IF i > Len(children) THEN <<>>
    ELSE LET c == children[i]
             p == Append(path, i)
             here == IF c.type = "file"
                     THEN (IF SupportedSuffix(c.suffix) THEN <<p>> ELSE <<>>)
                     ELSE (IF ExcludedDirName(c.name) THEN <<>>
                           ELSE DispatchOrder(c.children, p, 1))
         IN  here \o DispatchOrder(children, path, i + 1)

Dispatched ==
    IF target.type = "file"
    THEN (IF SupportedSuffix(target.suffix) THEN << <<>> >> ELSE <<>>)
    ELSE DispatchOrder(target.children, <<>>, 1)

\* the issues of one file's analysis
ResultOf(p) ==
    LET f == NodeAt(target, p)
    IN  IF f.readable THEN FileIssues(Lines(f.content), p, get_language(f))
        ELSE <<ScanError(p)>>

RECURSIVE MergeInOrder(_)
\* the per-file results appended in the order of the sequence ps
MergeInOrder(ps) == IF ps = <<>> THEN <<>> ELSE ResultOf(Head(ps)) \o MergeInOrder(Tail(ps))

C8_LineLengthOnce ==
    ScannedFile =>
        LET lines == Lines(target.content)
            over == {i \in 1..Len(lines) : LineLen(lines[i]) >= MAX_LINE_LENGTH + 1}
            found == IssuesOfCategory(<<>>, "line length")
        IN  IF over = {} THEN found = <<>>
            ELSE /\ Len(found) = 1
                 /\ found[1].severity = "WARNING"
                 /\ found[1].line \in over
                 /\ \A i \in over : found[1].line <= i
                 /\ found[1].count = Cardinality(over)

\* C8 witness: a scanned file whose first line has exactly 120 characters
\* and whose second line has more: one issue, citing line 2.
C8_Witness ==
    /\ ScannedFile
    /\ LineLen(Lines(target.content)[1]) = MAX_LINE_LENGTH
    /\ Len(IssuesOfCategory(<<>>, "line length")) = 1
    /\ IssuesOfCategory(<<>>, "line length")[1].line = 2

\* C9: a Python file that is one def header followed by more than 50 body
\* lines (the function is the last thing of the file, its span exceeds the
\* threshold) has exactly one function-length issue, a WARNING that names
\* the function and cites line 1.
C9_LastFunctionReported ==
    (/\ ScannedFileOf("python")
     /\ Len(target.content) = 2
     /\ target.content[1] = Seg("def_f", 1)
     /\ target.content[2].l = "stmt"
     /\ target.content[2].n > MAX_FUNCTION_LINES) =>
        IssuesOfCategory(<<>>, "function length") =
            <<QualityIssue("WARNING", "function length", <<>>, 1,
                           target.content[2].n, "long_function")>>

Categories == {"line length", "file length", "function length", "naming", "FIXME",
               "TODO", "duplicate code", "scan error"}

----------------------------------------------------------------------------
\* the issues of category c that the check of that category reports when it
\* is run on the text alone
RuleAlone(c, lines, language) ==
    LET of(issues) == SelectSeq(issues, LAMBDA i : i.category = c)
    IN  CASE c = "line length" -> check_line_length(lines, <<>>)
          [] c = "file length" -> check_file_length(lines, <<>>)
          [] c = "function length" -> check_function_length(lines, <<>>, language)
          [] c = "naming" -> check_naming_conventions(lines, <<>>, language)
          [] c \in {"FIXME", "TODO"} -> of(check_todo_fixme(lines, <<>>))
          [] c = "duplicate code" -> check_duplicate_code(lines, <<>>)

RuleCategories == Categories \ {"scan error"}

\* C11: the rules are evaluated independently on the same file: for every
\* rule, the issues of that rule in the report of a scanned file are exactly
\* the issues the rule gives when it is run on the file alone, whatever the
\* other rules report or do not report.
C11_RulesIndependent ==
    ScannedFile =>
        \A c \in RuleCategories :
            IssuesOfCategory(<<>>, c) =
                RuleAlone(c, Lines(target.content), get_language(target))

\* C11 witness: a scanned file on which every rule fires, with an issue of
\* every rule in the report.
C11_Witness ==
    /\ ScannedFile
    /\ \A c \in RuleCategories : IssuesOfCategory(<<>>, c) # <<>>

\* C11 witness of the other side: a scanned file on which the first rule
\* does not fire and a later one does.
C11_LaterRuleAlone ==
    /\ ScannedFile
    /\ IssuesOfCategory(<<>>, "line length") = <<>>
    /\ IssuesOfCategory(<<>>, "TODO") # <<>>

----------------------------------------------------------------------------
\* the lines of the text that are neither blank nor comment-only
CodeLines(lines) ==
    {i \in 1..Len(lines) : StripLen(lines[i]) >= 1 /\ ~IsCommentLine(lines[i])}

\* some text of more than 20 characters is the text of three code lines
\* or more
HasRepeatedLine(lines) ==
    \E i \in CodeLines(lines) :
        /\ StripLen(lines[i]) >= 21
        /\ Cardinality({j \in CodeLines(lines) : lines[j] = lines[i]}) >= 3

DuplicateIssue == QualityIssue("INFO", "duplicate code", <<>>, 0, 1, "")

\* C12 as stated: a scanned file has the INFO "duplicate code" issue if and
\* only if, blank and comment-only lines dropped, some stripped line text
\* longer than 20 characters occurs at least 3 times, whatever the size of
\* the file.
C12_DuplicateIffRepeated ==
    ScannedFile =>
        (IssuesOfCategory(<<>>, "duplicate code") # <<>>
            <=> HasRepeatedLine(Lines(target.content)))

\* C12 amended: a scanned file has the INFO "duplicate code" issue, once, if
\* and only if at least 10 lines are left when blank and comment-only lines
\* are dropped and some stripped line text longer than 20 characters is
\* the text of at least 3 of them.
C12_DuplicateIffRepeatedInTenLines ==
    ScannedFile =>
        LET lines == Lines(target.content)
            found == IssuesOfCategory(<<>>, "duplicate code")
        IN  IF HasRepeatedLine(lines) /\ Cardinality(CodeLines(lines)) >= 10
            THEN Len(found) = 1 /\ found[1].severity = "INFO"
            ELSE found = <<>>

\* C12 witness: a scanned file of exactly ten code lines, three of them the
\* same long line, with the duplicate-code issue.
C12_Witness ==
    /\ ScannedFile
    /\ Cardinality(CodeLines(Lines(target.content))) = 10
    /\ HasRepeatedLine(Lines(target.content))
    /\ IssuesOfCategory(<<>>, "duplicate code") = <<DuplicateIssue>>

----------------------------------------------------------------------------
\* the categories of the threshold rules
ViolationCategories == {"line length", "file length", "function length", "complexity",
                        "naming", "duplicate code"}

\* every issue of the report is the issue of a threshold rule
OnlyRuleViolations ==
    \A k \in 1..Len(report.issues) : report.issues[k].category \in ViolationCategories

\* C14: every issue of a threshold rule (line length, file length, function
\* length, complexity, naming, duplicate code) is a WARNING or an INFO,
\* never an ERROR; a finished run whose issues are all issues of these
\* rules has passed true.
C14_RuleViolationsNeverFail ==
    /\ \A k \in 1..Len(report.issues) :
           report.issues[k].category \in ViolationCategories
               => report.issues[k].severity \in {"WARNING", "INFO"}
    /\ (pc = "done" /\ OnlyRuleViolations) => ReadPassed(report) = TRUE

\* C14 witness: a finished run on a file that breaks the line-length, the
\* file-length, the function-length, the naming and the duplicate-code
\* rule and nothing else, with passed true.
C14_Witness ==
    /\ ScannedFile
    /\ OnlyRuleViolations
    /\ \A c \in ViolationCategories \ {"complexity"} : IssuesOfCategory(<<>>, c) # <<>>
    /\ ReadPassed(report) = TRUE

----------------------------------------------------------------------------
\* C15: every analysed file is recorded with a line count of at least 1 (an
\* empty file with exactly 1), hence after any scan total_lines is at least
\* files_scanned.
C15_TotalLinesAtLeastFiles ==
    pc = "done" =>
        /\ report.metrics.total_lines >= report.metrics.files_scanned
        /\ (target.type = "file" /\ report.metrics.files_scanned = 1)
               => report.metrics.total_lines >= 1

----------------------------------------------------------------------------
\* the extension with the case of its letters put aside
FoldedExtension(s) ==
    CASE s \in {".py", ".PY"} -> "py"
      [] s \in {".js", ".Js"} -> "js"
      [] s \in {".txt", ".TXT"} -> "txt"

RECURSIVE WalkedIn(_, _)
\* the paths of the files the walk meets below the directory at path: all
\* the files outside excluded directories
WalkedIn(children, path) ==
    UNION { LET c == children[i]
                p == Append(path, i)
            IN  IF c.type = "file" THEN {p}
                ELSE (IF ExcludedDirName(c.name) THEN {} ELSE WalkedIn(c.children, p))
            : i \in 1..Len(children) }

WalkedPaths == IF target.type = "file" THEN {<<>>} ELSE WalkedIn(target.children, <<>>)

\* the language tag of the file at path p
TagOf(p) == get_language(NodeAt(target, p))

\* C16: the language tag of a file depends on its extension only, and not
\* on the case of its letters: two files whose extensions are the same up
\* to case have the same tag; and the scan agrees with the tag: when the
\* scan is over, the files it has scanned are the files it met whose tag
\* is not "unknown".
C16_ClassificationByExtension ==
    /\ \A p, q \in AllFilePaths :
           FoldedExtension(NodeAt(target, p).suffix) = FoldedExtension(NodeAt(target, q).suffix)
               => TagOf(p) = TagOf(q)
    /\ \A k \in 1..Len(report.issues) : TagOf(report.issues[k].file) # "unknown"
    /\ pc = "done" =>
           LET tagged == {p \in WalkedPaths : TagOf(p) # "unknown"}
           IN  /\ report.metrics.files_scanned = Cardinality(tagged)
               /\ \A p \in tagged :
                      NodeAt(target, p).content = DirtyText => IssuesOf(p) # <<>>

\* C16 witness: a finished scan of a directory that holds a file.PY and a
\* file.py, both scanned, and a file whose tag is "unknown", not scanned.
C16_Witness ==
    /\ pc = "done"
    /\ target.type = "dir"
    /\ \E p, q, u \in WalkedPaths :
           /\ NodeAt(target, p).suffix = ".PY" /\ IssuesOf(p) # <<>>
           /\ NodeAt(target, q).suffix = ".py" /\ IssuesOf(q) # <<>>
           /\ TagOf(u) = "unknown" /\ IssuesOf(u) = <<>>
    /\ report.metrics.files_scanned = 2

----------------------------------------------------------------------------
\* the positions of the if statements of a body, and of its other decision
\* points
IfsOf(body) == {i \in 1..Len(body) : body[i].kind = "if"}
OtherDecisionsOf(body) ==
    {i \in 1..Len(body) : body[i].kind \in {"for", "while", "except", "boolop", "ifexp"}}

\* the complexity issues of the analysis that name the function
ComplexityIssuesOf(name) ==
    SelectSeq(analysis.issues, LAMBDA i : i.category = "complexity" /\ i.name = name)

----------------------------------------------------------------------------
\* the call of generate_docs on a directory that exists
DocsCall == pc = "docs start" /\ pc' = "docs done" /\ target.type = "module"

\* C17: a call of generate_docs with force false leaves an existing
\* README.md and an existing DESIGN.md as they are, each decided on its own,
\* and creates the one that is missing with the generated text; a call with
\* force true writes the generated text to both.
C17_ExistingDocsKept ==
    [][DocsCall =>
        LET info == [language |-> CASE target.code = "python" -> "Python"
                                    [] target.code = "javascript" -> "JavaScript"
                                    [] OTHER -> "Unknown"]
            new_readme == generate_readme(info, "absent")
            new_design == generate_design(info, "absent")
        IN  /\ target'.readme =
                   IF ~force' /\ target.readme # "absent" THEN target.readme ELSE new_readme
            /\ target'.design =
                   IF ~force' /\ target.design # "absent" THEN target.design ELSE new_design
            /\ \A k \in {"code", "tests", "gitignore", "license"} : target'[k] = target[k]
      ]_vars

\* C17 witness: after a call with force false the README.md a user wrote
\* is still there and the DESIGN.md that was missing is generated.
C17_Witness ==
    /\ pc = "docs done"
    /\ force = FALSE
    /\ target.type = "module"
    /\ target.readme = "# Existing README"
    /\ target.design \in GeneratedTexts
    /\ result.readme = "None"
    /\ result.design = "DESIGN.md"

\* C17 witness of the forced call: the README.md a user wrote is replaced.
C17_ForcedWitness ==
    /\ pc = "docs done"
    /\ force = TRUE
    /\ target.type = "module"
    /\ target.readme \in GeneratedTexts
    /\ target.design \in GeneratedTexts
    /\ result.readme = "README.md"
    /\ result.design = "DESIGN.md"

----------------------------------------------------------------------------
\* C18: at every point passed of the security report is true if and only if
\* its findings hold no CRITICAL and no HIGH finding, also when findings
\* are appended to the list directly; MEDIUM, LOW and INFO findings never
\* make it false.
C18_PassedFollowsFindings ==
    pc = "security client" =>
        (sreport.passed <=>
            \A k \in 1..Len(sreport.findings) :
                sreport.findings[k].severity \in {"MEDIUM", "LOW", "INFO"})

\* a line that is a comment and nothing else
CommentOnly(l) == l \in {"comment_eval", "comment_sql", "js_comment_html", "comment_plain"}

\* C19: the security scan reports no finding for a comment-only line, also
\* when the comment holds text that a dangerous pattern matches.
C19_CommentLinesNotReported ==
    \A k \in 1..Len(sreport.findings) :
        sreport.findings[k].line >= 1 =>
            ~CommentOnly(Lines(target.content)[sreport.findings[k].line])

----------------------------------------------------------------------------
\* C20: the module check does not pass for a module directory without
\* README.md, and does not pass for one with README.md and without
\* DESIGN.md.
C20_MissingDocsFail ==
    pc = "module done" =>
        /\ target.readme = "absent" => mreport.passed = FALSE
        /\ (target.readme # "absent" /\ target.design = "absent") => mreport.passed = FALSE

----------------------------------------------------------------------------
\* the documentation files and the code files among the paths of a change
DocPath(path) == path = "README.md"
CodePath(path) == path \in {"src/main.py", "lib/util.js"}

\* the change check has gone through check_doc_sync
ChangesChecked == pc = "change done" /\ creport.changes # <<>>

\* a documentation file is among the changes
DocAmongChanges == \E k \in 1..Len(creport.changes) : DocPath(creport.changes[k].path)

\* every code change is a modification of at most 20 lines
OnlySmallModifications ==
    \A k \in 1..Len(creport.changes) :
        CodePath(creport.changes[k].path) =>
            /\ creport.changes[k].change_type = "MODIFIED"
            /\ creport.changes[k].additions + creport.changes[k].deletions <= 20

----------------------------------------------------------------------------
\* an ERROR issue of the category of the depth cap
LimitIssues ==
    SelectSeq(report.issues,
              LAMBDA i : i.severity = "ERROR" /\ i.category = "analysis limit exceeded")

\* C22: the scan of a finite tree never crashes, and a run whose traversal
\* went deeper than the limit ends with an ERROR issue of category
\* "analysis limit exceeded" and with the remaining files processed.
C22_DepthLimitReported ==
    /\ pc # "crashed"
    /\ (pc = "done" /\ target.levels > RECURSION_LIMIT) =>
          (LimitIssues # <<>> /\ report.metrics.files_scanned >= Len(target.after))

----------------------------------------------------------------------------
\* the braces a line opens less those it closes
BraceDelta(l) ==
    (IF l \in {"js_func", "js_class", "open"} THEN 1 ELSE 0) - (IF l = "close" THEN 1 ELSE 0)

\* a line that matches the JavaScript signature pattern
JsSignature(l) == l \in {"js_func", "js_sig"}

\* over the lines s..e the function's brace was opened and the count of
\* opened less closed braces is back to its value before line s
Balanced(lines, s, e) ==
    /\ \E j \in s..e : lines[j] \in {"js_func", "js_class", "open"}
    /\ SumRange([j \in 1..Len(lines) |-> BraceDelta(lines[j])], s, e) <= 0

\* line e is the first line after the signature line s at which the braces
\* of the function are balanced, and no other signature lies in between
SpanOf(lines, s, e) ==
    /\ JsSignature(lines[s])
    /\ e > s
    /\ Balanced(lines, s, e)
    /\ \A j \in (s + 1)..(e - 1) : ~Balanced(lines, s, j)
    /\ \A j \in (s + 1)..e : ~JsSignature(lines[j])

FunctionIssuesAt(s) ==
    SelectSeq(report.issues, LAMBDA i : i.category = "function length" /\ i.line = s)

\* C23: in a JavaScript file a function that starts at a signature line
\* lasts until the first later line at which its braces are balanced, also
\* when the opening brace comes on a later line than the signature; its
\* length is evaluated there, so it is reported, with the length from the
\* signature to that line, exactly when that length exceeds 50.
C23_SpanEndsAtBalance ==
    ScannedFileOf("javascript") =>
        LET lines == Lines(target.content) IN
        \A s \in 1..Len(lines) :
            JsSignature(lines[s]) =>
                \A e \in (s + 1)..Len(lines) :
                    SpanOf(lines, s, e) =>
                        IF e - s > MAX_FUNCTION_LINES
                        THEN /\ Len(FunctionIssuesAt(s)) = 1
                             /\ FunctionIssuesAt(s)[1].count = e - s
                        ELSE FunctionIssuesAt(s) = <<>>

----------------------------------------------------------------------------
\* the number of lines of the scanned file: those of its segments
LineCount == SumSeq([k \in 1..Len(target.content) |-> target.content[k].n])

FileLengthIssues == SelectSeq(report.issues, LAMBDA i : i.category = "file length")

\* C24: a scanned file has a file-length issue, a WARNING, exactly when
\* its line count is greater than 500, and the count the issue reports is
\* the one added to total_lines.
C24_FileLengthStrict ==
    ScannedFile =>
        /\ (FileLengthIssues # <<>>) <=> (LineCount > 500)
        /\ \A k \in 1..Len(FileLengthIssues) :
              /\ FileLengthIssues[k].severity = "WARNING"
              /\ FileLengthIssues[k].count = LineCount
        /\ total_lines = LineCount
        /\ report.metrics.total_lines = LineCount

\* a file of exactly 500 lines has been scanned and has no file-length issue
C24_Witness ==
    /\ ScannedFile
    /\ LineCount = 500
    /\ FileLengthIssues = <<>>
    /\ total_lines = 500

----------------------------------------------------------------------------
\* the list a is the beginning of the list b
IsPrefix(a, b) == Len(a) <= Len(b) /\ \A k \in 1..Len(a) : a[k] = b[k]

\* C25: every step of a scan leaves the issues already in the report in
\* place, adding new ones only at the end of the list, and never sets
\* passed back to true once it is false.
C25_IssuesOnlyAppended ==
    [][/\ IsPrefix(report.issues, report'.issues)
       /\ (~report.passed => ~report'.passed)]_vars

\* a scan has added an issue of a file behind an ERROR issue of the report
C25_Witness ==
    /\ pc = "done"
    /\ ~report.passed
    /\ \E k, j \in 1..Len(report.issues) :
          /\ k < j
          /\ report.issues[k].severity = "ERROR"
          /\ report.issues[j].category = "line length"

----------------------------------------------------------------------------
\* the place of a category in the block of a file
CategoryRank(c) ==
    CASE c = "line length" -> 1
      [] c = "file length" -> 2
      [] c = "function length" -> 3
      [] c = "naming" -> 4
      [] c = "FIXME" -> 5
      [] c = "TODO" -> 6
      [] c = "duplicate code" -> 7
      [] c = "scan error" -> 8

\* the place of the file at path p in the order the files are scanned
ScanPosition(p) == CHOOSE k \in 1..Len(Dispatched) : Dispatched[k] = p

\* C26: every issue carries the path of one scanned file; the issues of a
\* file are one block of the report and the blocks follow the order the
\* files are scanned in; inside a block the issues are in the order line
\* length, file length, function length (by line), naming, FIXME, TODO,
\* duplicate code, scan error.
C26_BlocksInFixedOrder ==
    /\ \A k \in 1..Len(report.issues) : report.issues[k].file \in EligiblePaths
    /\ \A j, k \in 1..Len(report.issues) :
          j < k =>
              LET a == report.issues[j]
                  b == report.issues[k]
              IN  IF a.file = b.file
                  THEN /\ \A m \in j..k : report.issues[m].file = a.file
                       /\ CategoryRank(a.category) <= CategoryRank(b.category)
                       /\ (a.category = "function length" /\ b.category = "function length")
                              => a.line < b.line
                  ELSE ScanPosition(a.file) < ScanPosition(b.file)

\* the report holds the blocks of two files, the first with two
\* function-length issues followed by naming, FIXME and TODO issues
C26_Witness ==
    /\ pc = "done"
    /\ \E j \in 1..Len(report.issues) :
          /\ j + 5 <= Len(report.issues)
          /\ report.issues[j].category = "function length"
          /\ report.issues[j + 1].category = "function length"
          /\ report.issues[j + 2].category = "naming"
          /\ report.issues[j + 3].category = "FIXME"
          /\ report.issues[j + 4].category = "TODO"
          /\ report.issues[j].file = report.issues[j + 4].file
          /\ report.issues[Len(report.issues)].file # report.issues[j].file

----------------------------------------------------------------------------
\* a line that matches the def pattern of Python
PyDef(l) == l \in {"def_f", "def_g", "def_upper", "def_broken"}

\* the first line after line s that matches the def pattern, 0 if none
NextDef(lines, s) ==
    LET later == {t \in (s + 1)..Len(lines) : PyDef(lines[t])}
    IN  IF later = {} THEN 0 ELSE CHOOSE t \in later : \A u \in later : t <= u

FunctionIssues == SelectSeq(report.issues, LAMBDA i : i.category = "function length")

----------------------------------------------------------------------------
\* the number of lines of the file at path p: its newline characters + 1
NewlinesPlusOne(p) ==
    LET content == NodeAt(target, p).content
    IN  SumSeq([k \in 1..Len(content) |-> content[k].n])

RECURSIVE SumOverPaths(_)
SumOverPaths(S) ==
    IF S = {} THEN 0
    ELSE LET p == CHOOSE q \in S : TRUE IN NewlinesPlusOne(p) + SumOverPaths(S \ {p})

\* the eligible files whose second read succeeded
CountedPaths == {p \in EligiblePaths : NodeAt(target, p).readable}

\* C28: when scan_directory has returned, issues_found is the length of
\* the issue list, files_scanned is the number of eligible files, each of
\* them scanned once (its block holds no category twice, and the one
\* scan-error issue if it cannot be read), and total_lines is the sum of
\* (newlines + 1) over the files that could be read.
C28_MetricsAtReturn ==
    pc = "done" =>
        /\ report.metrics.issues_found = Len(report.issues)
        /\ report.metrics.files_scanned = Cardinality(EligiblePaths)
        /\ \A p \in EligiblePaths :
              /\ \A c \in Categories : Len(IssuesOfCategory(p, c)) <= 1
              /\ Len(IssuesOfCategory(p, "scan error")) =
                    (IF NodeAt(target, p).readable THEN 0 ELSE 1)
              /\ (NodeAt(target, p).readable /\ NodeAt(target, p).content = DirtyText)
                    => Len(IssuesOf(p)) = 2
        /\ report.metrics.total_lines = SumOverPaths(CountedPaths)

\* a scan of three eligible files, one of which cannot be read, is over
C28_Witness ==
    /\ pc = "done"
    /\ target.type = "dir"
    /\ report.metrics.files_scanned = 3
    /\ Cardinality(CountedPaths) = 2
    /\ report.metrics.issues_found >= 3
    /\ report.metrics.total_lines >= 3

----------------------------------------------------------------------------
\* the change type git's status letter stands for in the staged list
TypeOfStatus(status) ==
    CASE status = "A" -> "ADDED"
      [] status = "D" -> "DELETED"
      [] status = "R" -> "RENAMED"
      [] OTHER -> "MODIFIED"

\* main of the change check has filled report.changes
ChangesCollected == target.type = "repo" /\ pc \in {"change collected", "change done"}

\* the unstaged lines whose path is not in the staged list, in order
KeptUnstaged ==
    SelectSeq(target.unstaged,
              LAMBDA u : \A k \in 1..Len(target.staged) : target.staged[k].path # u.path)

\* the first entries of report.changes are the staged changes, in order
StagedFirst ==
    /\ Len(creport.changes) >= Len(target.staged)
    /\ \A k \in 1..Len(target.staged) :
          /\ creport.changes[k].path = target.staged[k].path
          /\ creport.changes[k].change_type = TypeOfStatus(target.staged[k].status)
          /\ target.staged[k].status # "R" =>
                /\ creport.changes[k].additions = target.staged[k].additions
                /\ creport.changes[k].deletions = target.staged[k].deletions

\* C29: without --staged the change list names each path once, the staged
\* changes first and then the unstaged changes of the other paths, each
\* in its original order, so that a path in both lists keeps its staged
\* entry; with --staged the list is the staged changes alone.
C29_MergeKeepsStagedFirst ==
    ChangesCollected =>
        /\ StagedFirst
        /\ IF staged_only
           THEN Len(creport.changes) = Len(target.staged)
           ELSE /\ Len(creport.changes) = Len(target.staged) + Len(KeptUnstaged)
                /\ \A k \in 1..Len(KeptUnstaged) :
                      /\ creport.changes[Len(target.staged) + k].path = KeptUnstaged[k].path
                      /\ creport.changes[Len(target.staged) + k].additions = 0
                /\ \A j, k \in 1..Len(creport.changes) :
                      j # k => creport.changes[j].path # creport.changes[k].path

\* a path changed in both lists is in the merged list with its staged
\* counts, and an unstaged change of another path follows
C29_Witness ==
    /\ ChangesCollected
    /\ ~staged_only
    /\ \E j \in 1..Len(target.staged) : \E k \in 1..Len(target.unstaged) :
          /\ target.staged[j].path = target.unstaged[k].path
          /\ creport.changes[j].additions > 0
    /\ Len(KeptUnstaged) >= 1
    /\ Len(creport.changes) = Len(target.staged) + 1

----------------------------------------------------------------------------
\* a step of the entry point of gen-docs
GenDocsCall == pc = "gen-docs start" /\ pc' = "gen-docs done"

\* the skeletons gen-docs writes
ReadmeSkeletons ==
    {"README skeleton of a Python module", "README skeleton of a JavaScript module",
     "README skeleton of a module"}
DesignSkeletons ==
    {"DESIGN skeleton of a Python module", "DESIGN skeleton of a JavaScript module",
     "DESIGN skeleton of a module"}

\* C30: a run of gen-docs writes both files or none.  For a target that
\* does not exist or is not a directory it returns 1 and writes nothing;
\* without --force, if README.md or DESIGN.md exists, it returns 1 and
\* writes neither; otherwise it writes both skeletons and returns 0.
C30_AllOrNothing ==
    [][GenDocsCall =>
        IF target.type # "module"
        THEN exit_code' = 1 /\ target' = target
        ELSE IF ~force' /\ (target.readme # "absent" \/ target.design # "absent")
        THEN exit_code' = 1 /\ target' = target
        ELSE /\ exit_code' = 0
             /\ target'.readme \in ReadmeSkeletons
             /\ target'.design \in DesignSkeletons
             /\ \A k \in {"code", "tests", "gitignore", "license"} : target'[k] = target[k]
      ]_vars

\* a run without --force on a directory that has a DESIGN.md and no
\* README.md has returned 1 and written no README.md
C30_Witness ==
    /\ pc = "gen-docs done"
    /\ ~force
    /\ target.type = "module"
    /\ target.readme = "absent"
    /\ target.design \in UserTexts
    /\ exit_code = 1

\* a run with --force has replaced both files of a user
C30_ForcedWitness ==
    /\ pc = "gen-docs done"
    /\ force
    /\ target.type = "module"
    /\ target.readme \in ReadmeSkeletons
    /\ target.design \in DesignSkeletons
    /\ exit_code = 0

====
